---- MODULE Spec2Model ----
(***************************************************************************)
(* sanic_cache: the coordination layer of src/sanic_cache/__init__.py over *)
(* the Redis backend of src/redis.py.                                      *)
(*                                                                         *)
(* Representation.  Every Python value is a sequence of strings, so that   *)
(* any two values can be compared: None is <<"None">>, the integer 5 is    *)
(* <<"5">>, an object is the sequence of the characters of its repr, a     *)
(* name is the sequence of its characters.  A keyword-argument dict is a   *)
(* function from parameter names to values.  "No value" (a Python None in  *)
(* a place where only a name is expected) is the empty sequence.           *)
(***************************************************************************)
EXTENDS Integers, Sequences, FiniteSets, TLC

VARIABLES
    app,        \* the memoized callable of the application
    versions,   \* store, version-token family: version key -> stored bytes
    entries,    \* store, memoized-value family: cache key -> stored bytes
    nextTok,    \* number of version tokens minted so far (uuid4 draws)
    pc,         \* per task: the store request it issues next
    loc,        \* per task: the locals of the operation it runs
    ret,        \* history: the value the last completed call returned, per
                \* function and bound arguments, since the last invalidation
    stale,      \* history: the function and bound arguments of the calls
                \* cached when a version reset completed and not made
                \* again since
    derived,    \* history: the last two keys make_cache_key returned while
                \* the version keys stayed as they are
    cache_timeout,  \* decorated_function.cache_timeout of the callable
    deadline,   \* store: version key -> the time it expires at, or Never
    now,        \* milliseconds elapsed
    debug,      \* current_app.debug
    retry,      \* the arguments retry_limiter is called with
    setup,      \* retry_limiter(...): pending, done, or rejected
    counter,    \* store: the retry counter and the time it expires at
    hist,       \* history of the attempts on the counter key
    locker,     \* the arguments locker is called with
    lock,       \* store: the lock record, its token and expiry
    key_prefix, \* AsyncRedisCache.key_prefix
    sent        \* the keys the last operation sent to the store

vars == <<app, versions, entries, nextTok, pc, loc, ret, stale, derived,
          cache_timeout, deadline, now, debug, retry, setup, counter,
          hist, locker, lock, key_prefix, sent>>

----------------------------------------------------------------------------
(* Values *)

None == <<"None">>
NoName == <<>>


\* Argument values.
ArgVals == {<<"1">>, <<"2">>}

\* Two instances of class A, as their reprs.
Inst1 == <<"<", "A", " ", "1", ">">>
Inst2 == <<"<", "A", " ", "2", ">">>
Instances == {Inst1, Inst2}

----------------------------------------------------------------------------
(* Names: src/sanic_cache/__init__.py, lines 32-47 and 106-154 *)

Letters == {"a", "b", "c", "d", "e", "f", "g", "h", "i", "j", "k", "l", "m",
            "n", "o", "p", "q", "r", "s", "t", "u", "v", "w", "x", "y", "z",
            "A", "B", "C", "D", "E", "F", "G", "H", "I", "J", "K", "L", "M",
            "N", "O", "P", "Q", "R", "S", "T", "U", "V", "W", "X", "Y", "Z"}
Digits == {"0", "1", "2", "3", "4", "5", "6", "7", "8", "9"}

\* valid_chars: ascii letters, digits, "_" and ".".
valid_chars == Letters \cup Digits \cup {"_", "."}

\* str.translate(*null_control): every character outside valid_chars is
\* deleted.
RECURSIVE translate(_)
translate(s) ==
    IF s = <<>> THEN <<>>
    ELSE (IF Head(s) \in valid_chars THEN <<Head(s)>> ELSE <<>>)
         \o translate(Tail(s))

\* ".".join(parts)
RECURSIVE join_dot(_)
join_dot(parts) ==
    IF Len(parts) = 0 THEN <<>>
    ELSE IF Len(parts) = 1 THEN parts[1]
    ELSE parts[1] \o <<".">> \o join_dot(Tail(parts))

memvname(funcname) == funcname \o <<"_", "m", "e", "m", "v", "e", "r">>

\* repr(x): values are represented by their repr.
repr(x) == x

----------------------------------------------------------------------------
(* The memoized callables of the application, as inspect sees them.        *)

\* def add(a, b=2)            a plain function with a default
\* class A: def get(self, b)  a method
\* def var(a, *rest)          a plain function with a variadic tail
Funcs == {"add", "get", "var"}

Module(f) == <<"m">>

QualName(f) ==
    CASE f = "add" -> <<"a", "d", "d">>
      [] f = "get" -> <<"A", ".", "g", "e", "t">>
      [] f = "var" -> <<"v", "a", "r">>
      [] f = "add_all" -> <<"a", "d", "d", "_", "a", "l", "l">>

\* inspect.getfullargspec(f).args
ArgNames(f) ==
    CASE f = "add" -> <<"a", "b">>
      [] f = "get" -> <<"self", "b">>
      [] f = "var" -> <<"a">>

\* inspect.getfullargspec(f).defaults, <<>> standing for None
Defaults(f) ==
    CASE f = "add" -> << <<"2">> >>
      [] f = "get" -> <<>>
      [] f = "var" -> <<>>

\* inspect.getfullargspec(f).varargs is not None
HasVarargs(f) == f = "var"

----------------------------------------------------------------------------
(* memoize_kwargs_to_args: src/sanic_cache/__init__.py, lines 50-103 *)

\* The loop body for parameter i (1-based here, i-1 in the source), with
\* arg_num positional arguments consumed so far.
RECURSIVE kwargs_to_args_from(_, _, _, _, _)
kwargs_to_args_from(f, args, kwargs, i, arg_num) ==
    LET names == ArgNames(f)
        args_len == Len(names)
        defaults == Defaults(f)
    IN  IF i > args_len THEN <<>>
        ELSE IF i = 1 /\ names[i] \in {"self", "cls"}
             THEN <<repr(args[1])>>
                  \o kwargs_to_args_from(f, args, kwargs, i + 1, arg_num + 1)
        ELSE IF names[i] \in DOMAIN kwargs
             THEN <<kwargs[names[i]]>>
                  \o kwargs_to_args_from(f, args, kwargs, i + 1, arg_num)
        ELSE IF arg_num < Len(args)
             THEN <<args[arg_num + 1]>>
                  \o kwargs_to_args_from(f, args, kwargs, i + 1, arg_num + 1)
        ELSE IF defaults # <<>> /\ args_len - (i - 1) <= Len(defaults)
             THEN <<defaults[Len(defaults) + (i - 1) - args_len + 1]>>
                  \o kwargs_to_args_from(f, args, kwargs, i + 1, arg_num + 1)
        ELSE <<None>>
             \o kwargs_to_args_from(f, args, kwargs, i + 1, arg_num + 1)

\* As memoize_kwargs_to_args, the keyword arguments never looked at.
kwargs_to_args_positional_only(f, args, kwargs) ==
    kwargs_to_args_from(f, args, <<>>, 1, 0)

\* The tuple new_args; the dict returned with it is always empty.
memoize_kwargs_to_args(f, args, kwargs) ==
    kwargs_to_args_from(f, args, kwargs, 1, 0)

----------------------------------------------------------------------------
(* function_namespace: src/sanic_cache/__init__.py, lines 106-154 *)

\* bound is f.__self__ (NoName for a plain function or an unbound method),
\* m_args the parameter names inspect reports for the object passed, args
\* the positional arguments handed over (<<>> for args=None).
instance_token(bound, m_args, args) ==
    IF bound # NoName THEN repr(bound)
    ELSE IF m_args # <<>> /\ m_args[1] = "self" /\ args # <<>>
         THEN repr(args[1])
    ELSE NoName

function_ns(f) == translate(join_dot(<<Module(f), QualName(f)>>))

function_ins(f, bound, m_args, args) ==
    LET tok == instance_token(bound, m_args, args)
    IN  IF tok # NoName
        THEN translate(join_dot(<<Module(f), QualName(f), tok>>))
        ELSE NoName

----------------------------------------------------------------------------
(* make_cache_key, the pure part: src/sanic_cache/__init__.py, 471-492 *)

\* "{0}{1}{2}".format(altfname, keyargs, keykwargs): the text that is
\* hashed.  The text determines the three parts, and the parts the text.
format_key(altfname, keyargs, keykwargs) == <<altfname, keyargs, keykwargs>>

\* base64(md5(updated))[:16] is taken to be collision-free.
digest(updated) == <<"md5", updated>>

\* cache_key = digest + version_data.  The digest has a fixed width and so
\* has every token, so the string determines both parts.
cache_key_of(f, args, kwargs, version_data) ==
    [digest |-> digest(format_key(function_ns(f),
                                  memoize_kwargs_to_args(f, args, kwargs),
                                  <<>>)),
     ver |-> version_data]

----------------------------------------------------------------------------
(* RedisSerializer: src/sanic_cache/serializers.py *)

\* What Redis returns for a key it does not hold.
Absent == <<>>

\* pickle.dumps / pickle.loads: a tagged copy, and None for bytes that are
\* no pickle (pickle.PickleError).
pickle_dumps(value) == <<"pickle", value>>

\* A pickle.loads that yields a value of its own for a pickled None.
pickle_loads_none_kept(bytes) ==
    IF Len(bytes) = 2 /\ bytes[1] = "pickle"
    THEN IF bytes[2] = None THEN <<"NoneType">> ELSE bytes[2]
    ELSE None

pickle_loads(bytes) ==
    IF Len(bytes) = 2 /\ bytes[1] = "pickle" THEN bytes[2] ELSE None

\* b"!" + pickle.dumps(value)
dumps(value) == <<"!">> \o pickle_dumps(value)

\* None for an absent key; the pickled value after "!"; otherwise the
\* bytes themselves (int(value), or the raw value).
loads(value) ==
    IF value = Absent THEN None
    ELSE IF Head(value) = "!" THEN pickle_loads(Tail(value))
    ELSE value

----------------------------------------------------------------------------
(* AsyncRedisCache: src/redis.py.  A store is a function from the keys it  *)
(* holds to the bytes stored under them.                                   *)

raw_get(store, key) == IF key \in DOMAIN store THEN store[key] ELSE Absent

cache_get(store, key) == loads(raw_get(store, key))

get_many(store, keys) ==
    [i \in 1..Len(keys) |-> loads(raw_get(store, keys[i]))]

cache_set(store, key, value) ==
    [k \in DOMAIN store \cup {key} |->
        IF k = key THEN dumps(value) ELSE store[k]]

cache_delete(store, key) == [k \in DOMAIN store \ {key} |-> store[k]]

\* delete_many(*keys): the keys are deleted in one command; the existence
\* checks that follow read only.
delete_many(store, keys) ==
    [k \in DOMAIN store \ {keys[i] : i \in 1..Len(keys)} |-> store[k]]

----------------------------------------------------------------------------
(* Version tokens: src/sanic_cache/__init__.py, lines 46-47 *)

\* The tokens uuid4 yields, in the order drawn; no draw repeats an earlier
\* one.
TokenNames == <<"t1", "t2", "t3", "t4", "t5", "t6", "t7", "t8", "t9">>

\* At most MaxTok tokens are minted in a run in which version keys are
\* reset or deleted.
MaxTok == 4

memoize_make_version_hash(n) == <<TokenNames[n]>>

\* "".join(version_data_list): every token has the same width, so the
\* joined string is the sequence of its tokens.
join_tokens(version_data_list) == version_data_list

----------------------------------------------------------------------------
(* Calls.  A call is the callable, the instance it is bound to (NoName for *)
(* a plain function and for a method taken from its class), the positional *)
(* arguments and the keyword arguments.                                    *)

Call(f, bound, args, kwargs) ==
    [f |-> f, bound |-> bound, args |-> args, kwargs |-> kwargs]

NoKwargs == <<>>

IsMethod(f) == ArgNames(f) # <<>> /\ ArgNames(f)[1] = "self"

\* The declared parameters that arguments can be passed for by keyword.
KeywordNames(f) == {ArgNames(f)[i] : i \in 1..Len(ArgNames(f))} \ {"self"}

ParamIndex(f, name) == CHOOSE i \in 1..Len(ArgNames(f)) : ArgNames(f)[i] = name

HasDefault(f, i) == Len(ArgNames(f)) - i < Len(Defaults(f))

DefaultOf(f, i) == Defaults(f)[Len(Defaults(f)) - (Len(ArgNames(f)) - i)]

\* A variadic callable is passed at most MaxRest arguments more than it
\* declares.
MaxRest == 1

MaxPositional(f) == Len(ArgNames(f)) + (IF HasVarargs(f) THEN MaxRest ELSE 0)

\* The calls Python accepts: no positional argument too many, no parameter
\* given twice, no parameter without a value.
ValidCall(f, args, kwargs) ==
    /\ Len(args) <= MaxPositional(f)
    /\ IsMethod(f) => Len(args) >= 1 /\ args[1] \in Instances
    /\ \A i \in 1..Len(args) :
          ~(IsMethod(f) /\ i = 1) => args[i] \in ArgVals
    /\ \A name \in DOMAIN kwargs : ParamIndex(f, name) > Len(args)
    /\ \A i \in 1..Len(ArgNames(f)) :
          i <= Len(args) \/ ArgNames(f)[i] \in DOMAIN kwargs \/ HasDefault(f, i)

PositionalChoices(f) ==
    UNION {[1..n -> ArgVals \cup Instances] : n \in 0..MaxPositional(f)}

KeywordChoices(f) ==
    UNION {[S -> ArgVals] : S \in SUBSET KeywordNames(f)}

CallsOf(f) ==
    {Call(f, NoName, args, kwargs) :
        <<args, kwargs>> \in
            {ak \in PositionalChoices(f) \X KeywordChoices(f) :
                ValidCall(f, ak[1], ak[2])}}

\* What Python binds: a value for every declared parameter, and the
\* variadic tail.
BoundArgs(c) ==
    LET names == ArgNames(c.f)
    IN  [declared |->
            [i \in 1..Len(names) |->
                IF i <= Len(c.args) THEN c.args[i]
                ELSE IF names[i] \in DOMAIN c.kwargs THEN c.kwargs[names[i]]
                ELSE DefaultOf(c.f, i)],
         rest |-> IF Len(c.args) > Len(names)
                  THEN SubSeq(c.args, Len(names) + 1, Len(c.args))
                  ELSE <<>>]

----------------------------------------------------------------------------
(* memoize_version: src/sanic_cache/__init__.py, lines 413-456 *)

\* inspect.getfullargspec of the decorated function, which declares
\* (*args, **kwargs): delete_memoized and delete_memoized_verhash are handed
\* the decorated function, make_cache_key the function it wraps.
WrapperArgNames == <<>>

\* fetch_keys: the function-scoped version key, then the instance-scoped
\* one when function_namespace finds an instance token.
fetch_keys_of(f, bound, m_args, args) ==
    LET ins == function_ins(f, bound, m_args, args)
    IN  <<memvname(function_ns(f))>>
        \o (IF ins # NoName THEN <<memvname(ins)>> ELSE <<>>)

\* As delete_target, every fetched key deleted.
delete_target_all(fetch_keys) == fetch_keys

\* As delete_target, nothing deleted.
delete_target_none(fetch_keys) == <<>>

\* delete=True: the key handed to delete_many.
delete_target(fetch_keys) == <<fetch_keys[Len(fetch_keys)]>>

\* As reset_keys, the slice [-1:] left out.
reset_keys_all(fetch_keys) == fetch_keys

\* reset=True: the keys kept for the write, fetch_keys[-1:].
reset_keys(fetch_keys) == <<fetch_keys[Len(fetch_keys)]>>

\* As dirty_mapping, only the first pair written.
dirty_mapping_first_only(fetch_keys, version_data_list) ==
    << <<fetch_keys[1], version_data_list[1]>> >>

\* The mapping handed to set_many when dirty: dict(zip(fetch_keys,
\* version_data_list)), every key fetched and not only the absent ones;
\* zip stops at the shorter list.
dirty_mapping(fetch_keys, version_data_list) ==
    [i \in 1..(IF Len(fetch_keys) < Len(version_data_list)
               THEN Len(fetch_keys) ELSE Len(version_data_list)) |->
        <<fetch_keys[i], version_data_list[i]>>]

\* Lines 433-456 between get_many and set_many: got is what get_many
\* returned, n the number of tokens minted before.  Yields the keys and
\* the tokens of the write (or no write), the list that is joined and
\* returned, and the number of tokens minted after.
version_after_read(fetch_keys, got, reset, n) ==
    LET has_ins == Len(fetch_keys) = 2
        mint1 == got[1] = None
        n1 == IF mint1 THEN n + 1 ELSE n
        v1 == IF mint1 THEN memoize_make_version_hash(n1) ELSE got[1]
        mint2 == has_ins /\ got[2] = None
        n2 == IF mint2 THEN n1 + 1 ELSE n1
        v2 == IF mint2 THEN memoize_make_version_hash(n2) ELSE got[2]
        list == IF has_ins THEN <<v1, v2>> ELSE <<v1>>
    IN  IF reset
        THEN [writes |-> dirty_mapping(reset_keys(fetch_keys),
                                       <<memoize_make_version_hash(n2 + 1)>>),
              version_data_list |-> <<memoize_make_version_hash(n2 + 1)>>,
              minted |-> n2 + 1]
        ELSE [writes |-> IF mint1 \/ mint2
                         THEN dirty_mapping(fetch_keys, list) ELSE <<>>,
              version_data_list |-> list,
              minted |-> n2]

----------------------------------------------------------------------------
(* Timeouts: src/redis.py, lines 56-65 and 109-125.  A timeout is unset    *)
(* (Python None) or a number of seconds.                                   *)

Unset == [set |-> FALSE, secs |-> 0]

Seconds(n) == [set |-> TRUE, secs |-> n]

\* AsyncRedisCache(default_timeout=300); CACHE_DEFAULT_TIMEOUT.
default_timeout == 300

\* BaseCache._normalize_timeout, as the docstring of its caller has it:
\* the default when the timeout is not defined.
base_normalize_timeout(timeout) ==
    IF timeout.set THEN timeout.secs ELSE default_timeout

\* As normalize_timeout, an undefined timeout taken as no expiry.
normalize_timeout_unset_never(timeout) ==
    IF timeout.set /\ timeout.secs # 0 THEN timeout.secs ELSE -1

\* AsyncRedisCache._normalize_timeout: -1 stands for no expiry.
normalize_timeout(timeout) ==
    IF base_normalize_timeout(timeout) = 0
    THEN -1
    ELSE base_normalize_timeout(timeout)

\* The deadline of a key without expiry.
Never == -1

\* set_many at time t (in milliseconds): pipe.set when the normalized timeout is -1,
\* pipe.setex(time=timeout) otherwise.
deadline_of(timeout, t) ==
    IF normalize_timeout(timeout) = -1
    THEN Never
    ELSE t + 1000 * normalize_timeout(timeout)

\* The key is in the store at time t.
Live(dl, k, t) == dl[k] = Never \/ t < dl[k]

----------------------------------------------------------------------------
(* Tasks.  Every request to the store is a suspension point, so an         *)
(* operation is a sequence of steps, one per request; what runs between    *)
(* two requests runs without interruption.                                 *)

Tasks == {"t1", "t2"}

Ops == {"memoize", "make_cache_key", "delete_memoized",
        "delete_memoized_args", "delete_memoized_verhash"}

NoKey == [digest |-> <<>>, ver |-> <<>>]

IdleLoc ==
    [op |-> "none", call |-> Call("add", NoName, <<>>, NoKwargs),
     fetch_keys |-> <<>>, version_data_list |-> <<>>, writes |-> <<>>,
     cache_key |-> NoKey, rv |-> NoName, invoked |-> FALSE,
     prior |-> NoName, was_stale |-> FALSE, had |-> {}, absent |-> {},
     expect |-> NoName, calls |-> 0, computed |-> NoName,
     failed |-> "none", raised |-> FALSE,
     ekey |-> [name |-> <<>>, parts |-> <<>>],
     retry_time |-> 0, result |-> Unset, retval |-> "none",
     response |-> "none",
     tries |-> 0, stop_at |-> 0, wake_at |-> 0, held |-> FALSE]

\* The key the call has the cache use, for the history.
KeyId(c) == <<c.f, memoize_kwargs_to_args(c.f, c.args, c.kwargs)>>

\* The call as Python binds it, for the history.
RawId(c) == <<c.f, BoundArgs(c)>>

PriorOf(c) ==
    IF \E r \in ret : r.raw = RawId(c)
    THEN (CHOOSE r \in ret : r.raw = RawId(c)).val
    ELSE NoName

\* The key arguments an invalidation issued as call c reaches: one
\* instance's for a bound method, the callable's otherwise.
InScope(c, kid) ==
    /\ kid[1] = c.f
    /\ c.bound # NoName => kid[2] # <<>> /\ kid[2][1] = repr(c.bound)

\* A call of c against version keys vs and entries es would find every
\* version key and a value under the key derived from them.
HitIn(vs, es, c) ==
    LET keys == fetch_keys_of(c.f, NoName, ArgNames(c.f), c.args)
        got == get_many(vs, keys)
    IN  /\ \A i \in 1..Len(keys) : got[i] # None
        /\ cache_get(es,
                     cache_key_of(c.f, c.args, c.kwargs, join_tokens(got)))
              # None

\* A call of c now would hit.
WouldHit(c) == HitIn(versions, entries, c)

\* A task that found version key k absent has still to write its token.
Racing(k) ==
    \E t \in Tasks :
        /\ pc[t] = "mv_set_many"
        /\ k \in loc[t].absent
        /\ \E i \in 1..Len(loc[t].writes) : loc[t].writes[i][1] = k

\* Version key k has a token and every task that found it absent has
\* written its own.
Settled(k) == k \in DOMAIN versions /\ ~Racing(k)

\* The version string of the keys, when each of them is settled.
SettledVersion(keys) ==
    IF \A i \in 1..Len(keys) : Settled(keys[i])
    THEN join_tokens(get_many(versions, keys))
    ELSE NoName

----------------------------------------------------------------------------
(* The calls the application makes.                                        *)

V1 == <<"1">>
V2 == <<"2">>

\* Calls of the memoized callables: add(1, 2), add(2, 2); a1.get(1),
\* a2.get(1); var(1), var(1, 2).
MemoCalls ==
    {Call("add", NoName, <<V1, V2>>, NoKwargs),
     Call("add", NoName, <<V2, V2>>, NoKwargs),
     Call("get", NoName, <<Inst1, V1>>, NoKwargs),
     Call("get", NoName, <<Inst2, V1>>, NoKwargs),
     Call("var", NoName, <<V1>>, NoKwargs),
     Call("var", NoName, <<V1, V2>>, NoKwargs)}

\* What the wrapped callable can return for a call.  add and var are not
\* functions of their arguments alone (a random draw, a lookup), add
\* returns None when its first argument is 2, and get returns a value kept
\* by its instance.
ResultsOf(c) ==
    CASE c.f = "add" /\ c.args[1] = V2 -> {None}
      [] c.f = "get" /\ c.args[1] = Inst1 -> {<<"5">>}
      [] c.f = "get" /\ c.args[1] # Inst1 -> {<<"6">>}
      [] OTHER -> {<<"5">>, <<"6">>}

\* Every call Python accepts, for key derivation.
KeyCalls == UNION {CallsOf(f) : f \in Funcs}

\* What delete_memoized(f) and delete_memoized_verhash(f) are handed: a
\* decorated function, or a method bound to an instance.
Targets ==
    {Call(f, NoName, <<>>, NoKwargs) : f \in Funcs}
    \cup {Call("get", inst, <<>>, NoKwargs) : inst \in Instances}

----------------------------------------------------------------------------
(* History.                                                                *)

Completes(t) == pc[t] # "idle" /\ pc'[t] = "idle"

Last2(s) == IF Len(s) > 2 THEN SubSeq(s, Len(s) - 1, Len(s)) ELSE s

\* To be conjoined after versions', pc' and loc' are set.
History(t) ==
    LET l == loc'[t]
        c == l.call
        kept == IF versions' = versions THEN derived ELSE <<>>
    IN  /\ app' = app
        /\ cache_timeout' = cache_timeout
        /\ now' = now
        /\ debug' = debug
        /\ UNCHANGED <<retry, setup, counter, hist, locker, lock,
                       key_prefix, sent>>
        /\ derived' =
              IF Completes(t) /\ l.op = "make_cache_key"
              THEN Last2(Append(kept, [call |-> c, key |-> l.cache_key]))
              ELSE kept
        /\ ret' =
              IF ~Completes(t) \/ l.raised THEN ret
              ELSE IF l.op = "memoize"
                   THEN {r \in ret : r.raw # RawId(c)}
                        \cup {[raw |-> RawId(c), kid |-> KeyId(c),
                               val |-> l.rv]}
              ELSE IF l.op \in {"delete_memoized", "delete_memoized_verhash"}
                   THEN {r \in ret : ~InScope(c, r.kid)}
              ELSE IF l.op = "delete_memoized_args"
                   THEN {r \in ret : r.kid # KeyId(c)}
              ELSE ret
        /\ stale' =
              IF ~Completes(t) \/ l.raised THEN stale
              ELSE IF l.op = "memoize" THEN stale \ {RawId(c)}
              ELSE IF l.op = "delete_memoized"
                   THEN stale \cup {r.raw : r \in
                            {r \in ret : InScope(c, r.kid)}}
              ELSE stale

----------------------------------------------------------------------------
(* The operations: src/sanic_cache/__init__.py, lines 413-741 *)

KeyOps == {"memoize", "make_cache_key", "delete_memoized_args"}

\* Where an operation goes on when memoize_version has returned.
after_version(op) ==
    CASE op = "memoize" -> "get"
      [] op = "delete_memoized_args" -> "delete"
      [] OTHER -> "idle"

\* A task enters an operation: function_namespace is evaluated and the
\* first request is about to be issued.
Start(t, op, c) ==
    /\ pc[t] = "idle"
    /\ c.f = app
    /\ loc' = [loc EXCEPT ![t] =
          [IdleLoc EXCEPT
              !.op = op,
              !.call = c,
              !.fetch_keys =
                  IF op \in KeyOps
                  THEN fetch_keys_of(c.f, NoName, ArgNames(c.f), c.args)
                  ELSE fetch_keys_of(c.f, c.bound, WrapperArgNames, <<>>),
              !.prior = IF op \in {"memoize", "delete_memoized_args"}
                        THEN PriorOf(c) ELSE NoName,
              !.was_stale = op = "memoize" /\ RawId(c) \in stale,
              !.had = DOMAIN versions,
              !.expect =
                  IF op = "memoize"
                  THEN SettledVersion(
                           fetch_keys_of(c.f, NoName, ArgNames(c.f), c.args))
                  ELSE NoName]]
    /\ pc' = [pc EXCEPT ![t] =
          IF op = "delete_memoized_verhash" THEN "mv_delete"
          ELSE "mv_get_many"]
    /\ UNCHANGED <<versions, entries, nextTok, deadline>>
    /\ History(t)

\* decorated_function(*args, **kwargs) of memoize
StartMemoize(t) == \E c \in MemoCalls : Start(t, "memoize", c)

\* decorated_function.make_cache_key(f, *args, **kwargs)
StartMakeCacheKey(t) == \E c \in KeyCalls : Start(t, "make_cache_key", c)

\* delete_memoized(f)
StartDeleteMemoized(t) == \E c \in Targets : Start(t, "delete_memoized", c)

\* delete_memoized(f, *args, **kwargs)
StartDeleteMemoizedArgs(t) ==
    \E c \in MemoCalls : Start(t, "delete_memoized_args", c)

\* delete_memoized_verhash(f)
StartDeleteVerhash(t) ==
    \E c \in Targets : Start(t, "delete_memoized_verhash", c)

\* memoize_version, delete=True: delete_many(fetch_keys[-1]).
MvDelete(t) ==
    /\ pc[t] = "mv_delete"
    /\ versions' = delete_many(versions, delete_target(loc[t].fetch_keys))
    /\ deadline' = [k \in DOMAIN versions' |-> deadline[k]]
    /\ pc' = [pc EXCEPT ![t] = "idle"]
    /\ UNCHANGED <<entries, nextTok, loc>>
    /\ History(t)

\* memoize_version: get_many(*fetch_keys) and what follows up to set_many.
MvGetMany(t) ==
    LET l == loc[t]
        r == version_after_read(l.fetch_keys,
                                get_many(versions, l.fetch_keys),
                                l.op = "delete_memoized", nextTok)
    IN  /\ pc[t] = "mv_get_many"
        /\ nextTok' = r.minted
        /\ loc' = [loc EXCEPT
              ![t].version_data_list = r.version_data_list,
              ![t].writes = r.writes,
              ![t].absent =
                  {l.fetch_keys[i] : i \in
                      {i \in 1..Len(l.fetch_keys) :
                          get_many(versions, l.fetch_keys)[i] = None}},
              ![t].cache_key =
                  IF l.op \in KeyOps
                  THEN cache_key_of(l.call.f, l.call.args, l.call.kwargs,
                                    join_tokens(r.version_data_list))
                  ELSE NoKey]
        /\ pc' = [pc EXCEPT ![t] =
              IF r.writes # <<>> THEN "mv_set_many" ELSE after_version(l.op)]
        /\ UNCHANGED <<versions, entries, deadline>>
        /\ History(t)

\* The timeout memoize_version is given: make_cache_key hands over the
\* callable's cache_timeout, delete_memoized none.
version_timeout(op) == IF op \in KeyOps THEN cache_timeout ELSE Unset

\* set_many: the pipeline is not a transaction, its writes reach the store
\* one by one.
MvSetMany(t) ==
    LET l == loc[t]
        w == Head(l.writes)
    IN  /\ pc[t] = "mv_set_many"
        /\ versions' = cache_set(versions, w[1], w[2])
        /\ deadline' = [k \in DOMAIN versions' |->
              IF k = w[1] THEN deadline_of(version_timeout(l.op), now)
              ELSE deadline[k]]
        /\ loc' = [loc EXCEPT ![t].writes = Tail(l.writes)]
        /\ pc' = [pc EXCEPT ![t] =
              IF Tail(l.writes) # <<>> THEN "mv_set_many"
              ELSE after_version(l.op)]
        /\ UNCHANGED <<entries, nextTok>>
        /\ History(t)

\* memoize: self.get(cache_key) finds a value, which is returned.
GetHit(t) ==
    LET rv == cache_get(entries, loc[t].cache_key)
    IN  /\ pc[t] = "get"
        /\ rv # None
        /\ loc' = [loc EXCEPT ![t].rv = rv]
        /\ pc' = [pc EXCEPT ![t] = "idle"]
        /\ UNCHANGED <<versions, entries, nextTok, deadline>>
        /\ History(t)

\* memoize: self.get(cache_key) yields None; the wrapped callable runs and
\* returns some result.
GetMiss(t) ==
    /\ pc[t] = "get"
    /\ cache_get(entries, loc[t].cache_key) = None
    /\ \E v \in ResultsOf(loc[t].call) :
          loc' = [loc EXCEPT ![t].rv = v, ![t].invoked = TRUE,
                             ![t].computed = v,
                             ![t].calls = loc[t].calls + 1]
    /\ pc' = [pc EXCEPT ![t] = "set"]
    /\ UNCHANGED <<versions, entries, nextTok, deadline>>
    /\ History(t)

\* memoize: self.set(cache_key, rv), then return rv.
Set(t) ==
    /\ pc[t] = "set"
    /\ entries' = cache_set(entries, loc[t].cache_key, loc[t].rv)
    /\ pc' = [pc EXCEPT ![t] = "idle"]
    /\ UNCHANGED <<versions, nextTok, loc, deadline>>
    /\ History(t)

\* A handler that raises in every mode.
on_read_failure_raise(dbg) == "raise"

\* What decorated_function does with an exception of make_cache_key or
\* self.get: raise in debug mode, else log and call f.
on_read_failure(dbg) == IF dbg THEN "raise" ELSE "recompute"

\* A handler that raises in every mode.
on_write_failure_raise(dbg) == "raise"

\* What decorated_function does with an exception of self.set: raise in
\* debug mode, else log and return rv.
on_write_failure(dbg) == IF dbg THEN "raise" ELSE "return"

\* memoize: the store fails in make_cache_key (get_many or set_many of
\* memoize_version) or in self.get.
ReadFail(t) ==
    LET stage == IF pc[t] = "get" THEN "get" ELSE "version"
        act == on_read_failure(debug)
    IN  /\ pc[t] \in {"mv_get_many", "mv_set_many", "get"}
        /\ loc[t].op = "memoize"
        /\ loc' = [loc EXCEPT ![t].failed = stage,
                              ![t].raised = act = "raise"]
        /\ pc' = [pc EXCEPT ![t] =
              IF act = "raise" THEN "idle" ELSE "recompute"]
        /\ UNCHANGED <<versions, entries, nextTok, deadline>>
        /\ History(t)

\* memoize, after the failure is logged: return await f(*args, **kwargs).
Recompute(t) ==
    /\ pc[t] = "recompute"
    /\ \E v \in ResultsOf(loc[t].call) :
          loc' = [loc EXCEPT ![t].rv = v, ![t].invoked = TRUE,
                             ![t].computed = v,
                             ![t].calls = loc[t].calls + 1]
    /\ pc' = [pc EXCEPT ![t] = "idle"]
    /\ UNCHANGED <<versions, entries, nextTok, deadline>>
    /\ History(t)

\* memoize: self.set(cache_key, rv) fails; the store may or may not have
\* taken the value.
WriteFail(t) ==
    /\ pc[t] = "set"
    /\ entries' \in {entries,
                     cache_set(entries, loc[t].cache_key, loc[t].rv)}
    /\ loc' = [loc EXCEPT ![t].failed = "set",
                          ![t].raised = on_write_failure(debug) = "raise"]
    /\ pc' = [pc EXCEPT ![t] = "idle"]
    /\ UNCHANGED <<versions, nextTok, deadline>>
    /\ History(t)

----------------------------------------------------------------------------
(* Cache.ememoize: src/sanic_cache/__init__.py, lines 157-166, 743-764 *)

\* base64.b64encode(pickle.dumps(x)).decode()
b64pickle(x) == <<"b64", pickle_dumps(x)>>

\* e_make_cache_key(f, *args, **kwargs): the dotted name, then the encoded
\* positional arguments, then the encoded (name, value) items, in order.
e_make_cache_key(f, args, items) ==
    [name |-> join_dot(<<Module(f), QualName(f)>>),
     parts |-> [i \in 1..(Len(args) + Len(items)) |->
                   IF i <= Len(args) THEN b64pickle(args[i])
                   ELSE b64pickle(items[i - Len(args)])]]

\* The calls of the callables decorated with ememoize; the keyword
\* arguments are the items of kwargs in the order of the call:
\* add(1, b=2) next to the calls above.
ECalls ==
    MemoCalls \cup {Call("add", NoName, <<V1>>, <<<<<<"b">>, V2>>>>)}

\* A handler raising in debug mode only.
e_on_write_failure_debug_only(dbg) == IF dbg THEN "raise" ELSE "return"

\* ememoize, except of self.set: log, raise err.
e_on_write_failure(dbg) == "raise"

\* decorated_function(*args, **kwargs) of ememoize
StartEmemoize(t) ==
    \E c \in ECalls :
        /\ pc[t] = "idle"
        /\ c.f = app
        /\ loc' = [loc EXCEPT ![t] =
              [IdleLoc EXCEPT !.op = "ememoize", !.call = c]]
        /\ pc' = [pc EXCEPT ![t] = "e_key"]
        /\ UNCHANGED <<versions, entries, nextTok, deadline>>
        /\ History(t)

\* cache_key = e_make_cache_key(f, *args, **kwargs)
EMakeCacheKey(t) ==
    LET c == loc[t].call
    IN  /\ pc[t] = "e_key"
        /\ loc' = [loc EXCEPT
              ![t].ekey = e_make_cache_key(c.f, c.args, c.kwargs)]
        /\ pc' = [pc EXCEPT ![t] = "e_get"]
        /\ UNCHANGED <<versions, entries, nextTok, deadline>>
        /\ History(t)

\* self.get(cache_key) finds a value, which is returned.
EGetHit(t) ==
    LET rv == cache_get(entries, loc[t].ekey)
    IN  /\ pc[t] = "e_get"
        /\ rv # None
        /\ loc' = [loc EXCEPT ![t].rv = rv]
        /\ pc' = [pc EXCEPT ![t] = "idle"]
        /\ UNCHANGED <<versions, entries, nextTok, deadline>>
        /\ History(t)

\* self.get(cache_key) yields None: the wrapped callable runs.
EGetMiss(t) ==
    /\ pc[t] = "e_get"
    /\ cache_get(entries, loc[t].ekey) = None
    /\ \E v \in ResultsOf(loc[t].call) :
          loc' = [loc EXCEPT ![t].rv = v, ![t].invoked = TRUE,
                             ![t].computed = v,
                             ![t].calls = loc[t].calls + 1]
    /\ pc' = [pc EXCEPT ![t] = "e_set"]
    /\ UNCHANGED <<versions, entries, nextTok, deadline>>
    /\ History(t)

\* self.set(cache_key, rv, timeout=timeout), then return rv.
ESet(t) ==
    /\ pc[t] = "e_set"
    /\ entries' = cache_set(entries, loc[t].ekey, loc[t].rv)
    /\ pc' = [pc EXCEPT ![t] = "idle"]
    /\ UNCHANGED <<versions, nextTok, loc, deadline>>
    /\ History(t)

\* e_make_cache_key (pickle.dumps of an argument) or self.get raises: the
\* bare except goes on to call f.
EReadFail(t) ==
    /\ pc[t] \in {"e_key", "e_get"}
    /\ loc' = [loc EXCEPT
          ![t].failed = IF pc[t] = "e_key" THEN "key" ELSE "get"]
    /\ pc' = [pc EXCEPT ![t] = "e_recompute"]
    /\ UNCHANGED <<versions, entries, nextTok, deadline>>
    /\ History(t)

\* return await f(*args, **kwargs)
ERecompute(t) ==
    /\ pc[t] = "e_recompute"
    /\ \E v \in ResultsOf(loc[t].call) :
          loc' = [loc EXCEPT ![t].rv = v, ![t].invoked = TRUE,
                             ![t].computed = v,
                             ![t].calls = loc[t].calls + 1]
    /\ pc' = [pc EXCEPT ![t] = "idle"]
    /\ UNCHANGED <<versions, entries, nextTok, deadline>>
    /\ History(t)

\* self.set(cache_key, rv) fails; the store may or may not have taken the
\* value.
EWriteFail(t) ==
    /\ pc[t] = "e_set"
    /\ entries' \in {entries, cache_set(entries, loc[t].ekey, loc[t].rv)}
    /\ loc' = [loc EXCEPT
          ![t].failed = "set",
          ![t].raised = e_on_write_failure(debug) = "raise"]
    /\ pc' = [pc EXCEPT ![t] = "idle"]
    /\ UNCHANGED <<versions, nextTok, deadline>>
    /\ History(t)

----------------------------------------------------------------------------
(* Cache.cached: src/sanic_cache/__init__.py, lines 308-400 *)

\* The paths of the requests the cached views serve.
Paths == {<<"/", "a">>, <<"/", "b">>}

\* make_cache_key of cached with the default key_prefix "view/%s":
\* key_prefix % Request.get_current().path.  The key has no part made of
\* the arguments.
cached_make_cache_key(path) == [name |-> <<"view/">> \o path, parts |-> <<>>]

\* decorated_function(*args, **kwargs) of cached, serving a request for
\* some path: make_cache_key.
StartCached(t) ==
    \E c \in MemoCalls : \E path \in Paths :
        /\ pc[t] = "idle"
        /\ c.f = app
        /\ loc' = [loc EXCEPT ![t] =
              [IdleLoc EXCEPT !.op = "cached", !.call = c,
                              !.ekey = cached_make_cache_key(path)]]
        /\ pc' = [pc EXCEPT ![t] = "c_get"]
        /\ UNCHANGED <<versions, entries, nextTok, deadline>>
        /\ History(t)

\* rv = await self.get(cache_key) finds a value, which is returned.
CGetHit(t) ==
    LET rv == cache_get(entries, loc[t].ekey)
    IN  /\ pc[t] = "c_get"
        /\ rv # None
        /\ loc' = [loc EXCEPT ![t].rv = rv]
        /\ pc' = [pc EXCEPT ![t] = "idle"]
        /\ UNCHANGED <<versions, entries, nextTok, deadline>>
        /\ History(t)

\* if rv is None: rv = await f(*args, **kwargs)
CGetMiss(t) ==
    /\ pc[t] = "c_get"
    /\ cache_get(entries, loc[t].ekey) = None
    /\ \E v \in ResultsOf(loc[t].call) :
          loc' = [loc EXCEPT ![t].rv = v, ![t].invoked = TRUE,
                             ![t].computed = v,
                             ![t].calls = loc[t].calls + 1]
    /\ pc' = [pc EXCEPT ![t] = "c_set"]
    /\ UNCHANGED <<versions, entries, nextTok, deadline>>
    /\ History(t)

\* self.set(cache_key, rv, timeout=...), then return rv.
CSet(t) ==
    /\ pc[t] = "c_set"
    /\ entries' = cache_set(entries, loc[t].ekey, loc[t].rv)
    /\ pc' = [pc EXCEPT ![t] = "idle"]
    /\ UNCHANGED <<versions, nextTok, loc, deadline>>
    /\ History(t)

----------------------------------------------------------------------------
(* Cache.edelete_memoized and Cache.delete_prefix:                         *)
(* src/sanic_cache/__init__.py, lines 293-306 and 766-772.  The keys as    *)
(* the strings the store holds: a sequence of units, a unit being one      *)
(* character of a name or the base64 text of one pickled argument.         *)

\* The characters of a name, each a unit.
key_chars(name) == [i \in 1..Len(name) |-> <<name[i]>>]

\* The string of a key of ememoize or cached: the name, then the encoded
\* arguments with nothing in between.
ekey_string(k) == key_chars(k.name) \o k.parts

\* The string of a key of memoize: the base64 text of the digest and the
\* version, which begins with no dotted name.
value_key_string(k) == << <<"b64md5", k>> >>

\* The string of a key of the store of values.
entry_string(k) ==
    IF "name" \in DOMAIN k THEN ekey_string(k) ELSE value_key_string(k)

\* The glob prefix + "*" of scan: the string begins with the prefix.
matches(s, prefix) ==
    Len(s) >= Len(prefix) /\ SubSeq(s, 1, Len(prefix)) = prefix

\* delete_prefix on the store of values: every key the scan returns is
\* deleted.
delete_prefix_entries(store, prefix) ==
    [k \in {k \in DOMAIN store : ~matches(entry_string(k), prefix)} |->
        store[k]]

\* delete_prefix on the version keys, which the same store holds.
delete_prefix_versions(store, prefix) ==
    [k \in {k \in DOMAIN store : ~matches(key_chars(k), prefix)} |->
        store[k]]

\* The functions decorated with ememoize: add_all(a) next to the others.
EFuncs == Funcs \cup {"add_all"}

\* The calls whose results the store may hold.
EStored == ECalls \cup {Call("add_all", NoName, <<V1>>, NoKwargs)}

\* The keys the store of values may hold: keys of ememoize, a key of
\* cached and a key of memoize.
EStoredKeys ==
    {e_make_cache_key(c.f, c.args, c.kwargs) : c \in EStored}
    \cup {cached_make_cache_key(<<"/", "a">>)}
    \cup {cache_key_of("add", <<V1, V2>>, NoKwargs,
                       <<memoize_make_version_hash(1)>>)}

\* The leading arguments edelete_memoized is called with.
ELeading == {<<>>, <<V1>>, <<V2>>, <<V1, V2>>}

\* edelete_memoized(f, *args): cache_key = e_make_cache_key(f, *args).
StartEDeleteMemoized(t) ==
    \E f \in EFuncs : \E args \in ELeading :
        /\ pc[t] = "idle"
        /\ loc' = [loc EXCEPT ![t] =
              [IdleLoc EXCEPT
                  !.op = "edelete_memoized",
                  !.call = Call(f, NoName, args, NoKwargs),
                  !.ekey = e_make_cache_key(f, args, NoKwargs)]]
        /\ pc' = [pc EXCEPT ![t] = "delete_prefix"]
        /\ UNCHANGED <<versions, entries, nextTok, deadline>>
        /\ History(t)

\* await self.delete_prefix(cache_key): the scan and the deletes.
DeletePrefix(t) ==
    LET prefix == ekey_string(loc[t].ekey)
    IN  /\ pc[t] = "delete_prefix"
        /\ entries' = delete_prefix_entries(entries, prefix)
        /\ versions' = delete_prefix_versions(versions, prefix)
        /\ deadline' = [k \in DOMAIN versions' |-> deadline[k]]
        /\ pc' = [pc EXCEPT ![t] = "idle"]
        /\ UNCHANGED <<nextTok, loc>>
        /\ History(t)

----------------------------------------------------------------------------
(* Cache.delete_memoized with arguments *)

\* delete_memoized(f, *args): self.delete(cache_key).
Delete(t) ==
    /\ pc[t] = "delete"
    /\ entries' = cache_delete(entries, loc[t].cache_key)
    /\ pc' = [pc EXCEPT ![t] = "idle"]
    /\ UNCHANGED <<versions, nextTok, loc, deadline>>
    /\ History(t)

----------------------------------------------------------------------------
(* Cache.retry_limiter: src/sanic_cache/__init__.py, lines 774-922.  One   *)
(* counter key; the clock moves between the attempts.                      *)

\* retry_limiter(max_retry_times=max, timeout=timeout, mode=mode), the
\* timeout in seconds.
Retry(mode, max, timeout) ==
    [mode |-> mode, max_retry_times |-> max, timeout |-> timeout]

\* The defaults of retry_limiter.
DefaultRetry == Retry("frt", 1, 30)

\* The ways the application sets the limiter up.
RetryConfigs ==
    {Retry("frt", 2, 30), Retry("ert", 2, 5), Retry("frt", 1, 5),
     Retry("ert", 1, 30), Retry("xrt", 2, 5), Retry("frt", 0, 30)}

\* The counter key is absent.
NoCounter == [count |-> 0, expires |-> Never]

\* No attempt was made: the attempts started, the attempts started since
\* the counter was last deleted, the times between two attempts, the
\* time passed since the last attempt, the time that had passed when the
\* attempt started, and whether the attempt before it was rejected.
NoHist ==
    [attempts |-> 0, streak |-> 0, gaps |-> {}, gap |-> 0, waited |-> 0,
     was_rejected |-> FALSE, overlapped |-> FALSE]

\* redis INCR: an absent key counts from 0 and gets no expiry.
inc(c) ==
    IF c.count = 0 THEN [count |-> 1, expires |-> Never]
    ELSE [c EXCEPT !.count = @ + 1]

\* redis EXPIRE key seconds, at time t.
expire(c, seconds, t) ==
    IF c.count = 0 THEN c ELSE [c EXCEPT !.expires = t + 1000 * seconds]

\* redis TTL at time t: -2 for an absent key, -1 for a key without
\* expiry, else the remaining milliseconds rounded to seconds.
ttl(c, t) ==
    IF c.count = 0 THEN -2
    ELSE IF c.expires = Never THEN -1
    ELSE (c.expires - t + 500) \div 1000

\* The counter as the store holds it at time t.
expired_at(c, t) ==
    IF c.expires # Never /\ t >= c.expires THEN NoCounter ELSE c

\* Any max_retry_times passes.
valid_max_any(max) == TRUE

\* retry_limiter: max_retry_times < 1 raises AttributeError.
valid_max(max) == max >= 1

\* decorator: any mode but "ert" and "frt" raises AttributeError.
valid_mode(mode) == mode \in {"ert", "frt"}

\* A mode that sets the expiry on no attempt.
expires_on_never(mode, retry_time) == FALSE

\* Every mode setting the expiry on every attempt.
expires_on_always(mode, retry_time) == TRUE

\* Every mode setting the expiry when the count is 1 only.
expires_on_first(mode, retry_time) == retry_time = 1

\* _max_retry_ert sets the expiry on every attempt, _max_retry_frt when
\* the count is 1.
expires_on(mode, retry_time) == mode = "ert" \/ retry_time = 1

\* No retval clears the counter.
clears_never(retval) == FALSE

\* isinstance(retval, HTTPResponse) and retval.status == 200
clears(retval) == retval = "ok200"

\* if result: of an Optional[int]
truthy(result) == result.set /\ result.secs # 0

\* What the decorated view returns: a response with status 200, another
\* response, a str, None.
RetVals == {"ok200", "resp500", "str", "none"}

\* What decorator returns for a retval of the view that needs no delete.
response_of(retval) ==
    CASE retval = "str" -> "str400"
      [] retval = "none" -> "message400"
      [] OTHER -> "retval"

\* The time between two attempts, in milliseconds.
Spacings == {100, 3000, 6000, 29800}

\* The attempts made in a run.
MaxAttempts == 5

\* The state of the memoizer, which the limiter leaves alone.
memo_vars == <<app, versions, entries, nextTok, ret, stale, derived,
               cache_timeout, deadline, debug>>

\* The state of the limiter, of the locker, and the keys sent.
limit_vars == <<retry, setup, counter, hist>>
lock_vars == <<locker, lock>>
wire_vars == <<key_prefix, sent>>

\* retry_limiter(...): the check of max_retry_times.
RetryLimiter ==
    /\ setup = "pending"
    /\ setup' = IF valid_max(retry.max_retry_times) THEN "done"
                ELSE "rejected"
    /\ UNCHANGED <<memo_vars, lock_vars, wire_vars, pc, loc, now, retry, counter, hist>>

\* Time passes between two attempts; the store drops an expired counter.
RlTick(t) ==
    \E d \in Spacings :
        /\ pc[t] = "idle"
        /\ hist.attempts >= 1
        /\ hist.gap = 0
        /\ now' = now + d
        /\ counter' = expired_at(counter, now')
        /\ hist' = [hist EXCEPT !.gap = d]
        /\ UNCHANGED <<memo_vars, lock_vars, wire_vars, pc, loc, retry, setup>>

\* decorator(*args, **kwargs): make_cache_key, then the dispatch on mode.
StartAttempt(t) ==
    /\ pc[t] = "idle"
    /\ setup = "done"
    /\ hist.attempts < MaxAttempts
    /\ hist.attempts = 0 \/ hist.gap > 0
    /\ hist' = [attempts |-> hist.attempts + 1,
                streak |-> hist.streak + 1,
                gaps |-> IF hist.attempts = 0 THEN {}
                         ELSE hist.gaps \cup {hist.gap},
                waited |-> hist.gap,
                was_rejected |-> loc[t].response = "rejected",
                overlapped |-> \/ hist.overlapped
                               \/ \E u \in Tasks \ {t} : pc[u] # "idle",
                gap |-> 0]
    /\ loc' = [loc EXCEPT ![t] =
          [IdleLoc EXCEPT
              !.op = "retry_limiter",
              !.raised = ~valid_mode(retry.mode),
              !.response = IF valid_mode(retry.mode) THEN "none"
                           ELSE "config_error"]]
    /\ pc' = [pc EXCEPT ![t] =
          IF valid_mode(retry.mode) THEN "rl_inc" ELSE "idle"]
    /\ UNCHANGED <<memo_vars, lock_vars, wire_vars, now, retry, setup, counter>>

\* The threshold comparison of _max_retry_ert and _max_retry_frt.
after_expire(retry_time) ==
    IF retry_time > retry.max_retry_times THEN "rl_ttl" ELSE "rl_call"

\* retry_time = await self.inc(cache_key)
RlInc(t) ==
    LET retry_time == inc(counter).count
    IN  /\ pc[t] = "rl_inc"
        /\ counter' = inc(counter)
        /\ loc' = [loc EXCEPT ![t].retry_time = retry_time]
        /\ pc' = [pc EXCEPT ![t] =
              IF expires_on(retry.mode, retry_time) THEN "rl_expire"
              ELSE after_expire(retry_time)]
        /\ UNCHANGED <<memo_vars, lock_vars, wire_vars, now, retry, setup, hist>>

\* await self.expire(cache_key, timeout)
RlExpire(t) ==
    /\ pc[t] = "rl_expire"
    /\ counter' = expire(counter, retry.timeout, now)
    /\ pc' = [pc EXCEPT ![t] = after_expire(loc[t].retry_time)]
    /\ UNCHANGED <<memo_vars, lock_vars, wire_vars, loc, now, retry, setup, hist>>

\* return await self.ttl(cache_key), and decorator's "if result:".
RlTtl(t) ==
    LET result == Seconds(ttl(counter, now))
    IN  /\ pc[t] = "rl_ttl"
        /\ loc' = [loc EXCEPT
              ![t].result = result,
              ![t].response = IF truthy(result) THEN "rejected"
                              ELSE "none"]
        /\ pc' = [pc EXCEPT ![t] =
              IF truthy(result) THEN "idle" ELSE "rl_call"]
        /\ UNCHANGED <<memo_vars, lock_vars, wire_vars, now, retry, setup, counter, hist>>

\* retval = await f(*args, **kwargs), and what follows up to the delete.
RlCall(t) ==
    \E retval \in RetVals :
        /\ pc[t] = "rl_call"
        /\ loc' = [loc EXCEPT
              ![t].retval = retval,
              ![t].invoked = TRUE,
              ![t].calls = loc[t].calls + 1,
              ![t].response = IF clears(retval) THEN "none"
                              ELSE response_of(retval)]
        /\ pc' = [pc EXCEPT ![t] =
              IF clears(retval) THEN "rl_delete" ELSE "idle"]
        /\ UNCHANGED <<memo_vars, lock_vars, wire_vars, now, retry, setup, counter, hist>>

\* await self.delete(cache_key), then return retval.
RlDelete(t) ==
    /\ pc[t] = "rl_delete"
    /\ counter' = NoCounter
    /\ hist' = [hist EXCEPT !.streak = 0]
    /\ loc' = [loc EXCEPT ![t].response = "retval"]
    /\ pc' = [pc EXCEPT ![t] = "idle"]
    /\ UNCHANGED <<memo_vars, lock_vars, wire_vars, now, retry, setup>>

\* The time that passes between two requests of concurrent attempts, in
\* milliseconds.
Waits == {1000, 3000}

\* The clock of a run of concurrent attempts stops here, in milliseconds.
MaxRlNow == 6000

\* Time passes at any point of the attempts; the store drops an expired
\* counter.
RlElapse ==
    \E d \in Waits :
        /\ now + d <= MaxRlNow
        /\ now' = now + d
        /\ counter' = expired_at(counter, now')
        /\ hist' = [hist EXCEPT !.gap = @ + d]
        /\ UNCHANGED <<memo_vars, lock_vars, wire_vars, pc, loc, retry, setup>>

\* The view calls the callback it was handed in kwargs["retry_clear"],
\* functools.partial(self.delete, cache_key), while it runs.
RlClear(t) ==
    /\ pc[t] = "rl_call"
    /\ counter # NoCounter
    /\ counter' = NoCounter
    /\ hist' = [hist EXCEPT !.streak = 0]
    /\ UNCHANGED <<memo_vars, lock_vars, wire_vars, pc, loc, now, retry,
                   setup>>

----------------------------------------------------------------------------
(* Cache.locker: src/sanic_cache/__init__.py, lines 924-987, over the      *)
(* lock of the redis client: SET NX PX to acquire, compare-and-delete on   *)
(* the token to release.  One lock name; a task's token is its name.       *)

\* locker(timeout=timeout, sleep=sleep, blocking_timeout=blocking_timeout):
\* timeout and blocking_timeout in seconds, sleep in milliseconds.
Locker(timeout, sleep, blocking_timeout) ==
    [timeout |-> timeout, sleep |-> sleep,
     blocking_timeout |-> blocking_timeout]

\* The defaults of locker: timeout 0, sleep 0.1, blocking_timeout 5.
DefaultLocker == Locker(0, 100, 5)

\* The ways the application sets the locker up.
LockerConfigs ==
    {Locker(0, 1000, 2), Locker(2, 1000, 2), Locker(3, 1000, 2)}

\* The lock name is absent.
NoLock == [owner |-> "none", expires |-> Never]

\* Blocking whatever the timeout.
blocking_always(timeout) == TRUE

\* if timeout: blocking = True, else: blocking = False
blocking(timeout) == timeout # 0

\* Lock.do_acquire at time t: SET name token NX, with PX when the lock has
\* a timeout.
do_acquire(l, token, timeout, t) ==
    IF l.owner # "none" THEN l
    ELSE [owner |-> token,
          expires |-> IF timeout # 0 THEN t + 1000 * timeout ELSE Never]

\* A release that leaves the record in the store.
do_release_keep(l, token) == l

\* Lock.do_release: the record is deleted if it holds the token.
do_release(l, token) == IF l.owner = token THEN NoLock ELSE l

\* The lock record as the store holds it at time t.
lock_at(l, t) == IF l.expires # Never /\ t >= l.expires THEN NoLock ELSE l

\* The clock of a run of the locker stops here, in milliseconds.
MaxLockNow == 4000

\* What the locker leaves alone.
lock_frame == <<memo_vars, limit_vars, wire_vars, locker>>

\* Time passes by one polling interval while the tasks sleep, run the
\* protected operation or are idle: a request to the store takes no time,
\* and a sleeping task that is due goes first.  The store drops an expired
\* lock record.
LkTick ==
    /\ now + locker.sleep <= MaxLockNow
    /\ \A t \in Tasks :
          /\ pc[t] \notin {"lk_acquire", "lk_release"}
          /\ pc[t] = "lk_sleep" => now < loc[t].wake_at
    /\ now' = now + locker.sleep
    /\ lock' = lock_at(lock, now')
    /\ UNCHANGED <<lock_frame, pc, loc>>

\* decorator_function(*args, **kwargs): make_cache_key, the Lock object,
\* and the start of lock.acquire().
StartLocked(t) ==
    /\ pc[t] = "idle"
    /\ loc' = [loc EXCEPT ![t] =
          [IdleLoc EXCEPT
              !.op = "locker",
              !.stop_at = now + 1000 * locker.blocking_timeout]]
    /\ pc' = [pc EXCEPT ![t] = "lk_acquire"]
    /\ UNCHANGED <<lock_frame, lock, now>>

\* One round of the loop of Lock.acquire: do_acquire, and on failure the
\* return for a non-blocking lock or past stop_trying_at, else the sleep.
LkAcquire(t) ==
    LET got == lock.owner = "none"
        next_try_at == now + locker.sleep
        give_up == \/ ~blocking(locker.timeout)
                   \/ next_try_at > loc[t].stop_at
    IN  /\ pc[t] = "lk_acquire"
        /\ lock' = do_acquire(lock, t, locker.timeout, now)
        /\ loc' = [loc EXCEPT
              ![t].tries = loc[t].tries + 1,
              ![t].held = got,
              ![t].invoked = got,
              ![t].calls = IF got THEN 1 ELSE 0,
              ![t].wake_at = IF got \/ give_up THEN 0 ELSE next_try_at,
              ![t].response = IF ~got /\ give_up THEN "empty" ELSE "none"]
        /\ pc' = [pc EXCEPT ![t] =
              IF got THEN "lk_f"
              ELSE IF give_up THEN "idle" ELSE "lk_sleep"]
        /\ UNCHANGED <<lock_frame, now>>

\* await asyncio.sleep(sleep) is over.
LkWake(t) ==
    /\ pc[t] = "lk_sleep"
    /\ now >= loc[t].wake_at
    /\ pc' = [pc EXCEPT ![t] = "lk_acquire"]
    /\ UNCHANGED <<lock_frame, lock, loc, now>>

\* rv = await f(*args, **kwargs) returns or raises.
LkFinish(t) ==
    \E outcome \in {"returned", "raised"} :
        /\ pc[t] = "lk_f"
        /\ loc' = [loc EXCEPT ![t].retval = outcome]
        /\ pc' = [pc EXCEPT ![t] = "lk_release"]
        /\ UNCHANGED <<lock_frame, lock, now>>

\* finally: await lock.release().  Releasing a lock that is no longer
\* owned raises LockNotOwnedError in place of the outcome of f.
LkRelease(t) ==
    /\ pc[t] = "lk_release"
    /\ lock' = do_release(lock, t)
    /\ loc' = [loc EXCEPT
          ![t].response = IF lock.owner = t THEN loc[t].retval
                          ELSE "lock_error",
          ![t].raised = lock.owner # t \/ loc[t].retval = "raised"]
    /\ pc' = [pc EXCEPT ![t] = "idle"]
    /\ UNCHANGED <<lock_frame, now>>

\* No locker is set up and the lock name is absent.
LockerIdle == locker = DefaultLocker /\ lock = NoLock

\* The namespace prefix of the keys, CACHE_KEY_PREFIX.
Prefix == <<"p", "_">>

\* No key was sent.
WireIdle == key_prefix = Prefix /\ sent = {}

----------------------------------------------------------------------------
(* The keys on the wire: what each operation hands to self.async_cache    *)
(* for the keys it is called with.  src/redis.py, lines 70-154, and        *)
(* src/sanic_cache/__init__.py, lines 275-306 and 974-976.                 *)

\* A key handed to the redis client, with the key the operation was
\* called with.
Sent(raw, key) == [raw |-> raw, logical |-> key]

\* self.key_prefix + key
prefixed(p, key) == p \o key

\* get, set, delete, has, inc, eget, eset, expire, ttl: one key, prefixed.
sent_one(p, keys) == {Sent(prefixed(p, keys[1]), keys[1])}

\* get_many, set_many: every key, prefixed.
sent_many(p, keys) ==
    {Sent(prefixed(p, keys[i]), keys[i]) : i \in 1..Len(keys)}

\* delete_many: the prefixed keys are deleted, and self.has is then
\* called with each prefixed key, which it prefixes.
sent_delete_many(p, keys) ==
    sent_many(p, keys)
    \cup {Sent(prefixed(p, prefixed(p, keys[i])), keys[i]) :
             i \in 1..Len(keys)}

\* locker: self.async_cache.lock(cache_key, ...), the name as it is.
sent_lock(p, keys) == {Sent(keys[1], keys[1])}

\* delete_prefix: scan(match=key_prefix + prefix + "*"); the keys found
\* are deleted as the store returned them.
sent_delete_prefix(p, keys) ==
    {Sent(prefixed(p, keys[1]) \o <<"*">>, keys[1] \o <<"*">>)}

\* The operations that reach the store.
WireOps ==
    {"get", "set", "delete", "has", "inc", "eget", "eset", "expire", "ttl",
     "get_many", "set_many", "delete_many", "lock", "delete_prefix"}

\* What operation op sends for the keys.
sent_by(op, p, keys) ==
    CASE op \in {"get_many", "set_many"} -> sent_many(p, keys)
      [] op = "delete_many" -> sent_delete_many(p, keys)
      [] op = "lock" -> sent_lock(p, keys)
      [] op = "delete_prefix" -> sent_delete_prefix(p, keys)
      [] OTHER -> sent_one(p, keys)

\* The keys of the record families, for the functions of the model:
\* version keys, counter keys, lock names, keys of ememoize and keys of
\* memoized values.
VersionKeys == {memvname(join_dot(<<Module(f), QualName(f)>>)) : f \in Funcs}

CounterKeys ==
    {<<"retry-times-limit:">> \o <<":", ":">>
        \o join_dot(<<Module(f), QualName(f)>>) : f \in Funcs}

LockNames ==
    {<<"redis-locker:">> \o <<":", ":">>
        \o join_dot(<<Module(f), QualName(f)>>) : f \in Funcs}

EKeys == {join_dot(<<Module(f), QualName(f)>>) : f \in Funcs}

ValueKeys == {<<"md5">> \o QualName(f) \o <<"v1">> : f \in Funcs}

\* The keys the layer calls an operation with: one key, or one or two
\* version keys for the operations on many keys.
WireArgs(op) ==
    CASE op \in {"get_many", "set_many", "delete_many"} ->
           {<<k>> : k \in VersionKeys}
           \cup {jk \in VersionKeys \X VersionKeys : jk[1] # jk[2]}
      [] op \in {"inc", "expire", "ttl"} -> {<<k>> : k \in CounterKeys}
      [] op = "delete" -> {<<k>> : k \in ValueKeys \cup CounterKeys}
      [] op = "lock" -> {<<k>> : k \in LockNames}
      [] op \in {"eget", "eset", "delete_prefix"} -> {<<k>> : k \in EKeys}
      [] OTHER -> {<<k>> : k \in ValueKeys}

\* An operation of the cache is called and sends its keys.
Wire(t) ==
    \E op \in WireOps : \E keys \in WireArgs(op) :
        /\ pc[t] = "idle"
        /\ loc' = [loc EXCEPT ![t] =
              [IdleLoc EXCEPT !.op = op, !.fetch_keys = keys]]
        /\ sent' = sent_by(op, key_prefix, keys)
        /\ UNCHANGED <<memo_vars, limit_vars, lock_vars, pc, now,
                       key_prefix>>

\* No limiter is set up and no attempt was made.
LimiterIdle ==
    /\ retry = DefaultRetry
    /\ setup = "pending"
    /\ counter = NoCounter
    /\ hist = NoHist

----------------------------------------------------------------------------
(* Specifications.                                                         *)

Init ==
    /\ app \in Funcs
    /\ versions = <<>>
    /\ entries = <<>>
    /\ nextTok = 0
    /\ pc = [t \in Tasks |-> "idle"]
    /\ loc = [t \in Tasks |-> IdleLoc]
    /\ ret = {}
    /\ stale = {}
    /\ derived = <<>>
    /\ cache_timeout = Unset
    /\ deadline = <<>>
    /\ now = 0
    /\ debug = FALSE
    /\ LimiterIdle
    /\ LockerIdle
    /\ WireIdle

\* One task: the operations of the memoizer, one after the other.
Next ==
    \E t \in {"t1"} :
        \/ StartMemoize(t)
        \/ StartDeleteMemoized(t)
        \/ StartDeleteMemoizedArgs(t)
        \/ StartDeleteVerhash(t)
        \/ MvDelete(t)
        \/ MvGetMany(t) /\ nextTok' <= MaxTok
        \/ MvSetMany(t)
        \/ GetHit(t)
        \/ GetMiss(t)
        \/ Set(t)
        \/ Delete(t)

Spec == Init /\ [][Next]_vars

\* One task: key derivation, with the version keys reset and deleted in
\* between.
NextKey ==
    \E t \in {"t1"} :
        \/ StartMakeCacheKey(t)
        \/ StartDeleteMemoized(t)
        \/ StartDeleteVerhash(t)
        \/ MvDelete(t)
        \/ MvGetMany(t) /\ nextTok' <= MaxTok
        \/ MvSetMany(t)

SpecKey == Init /\ [][NextKey]_vars

\* Several tasks calling memoized callables at the same time.  No version
\* key is ever removed, so a token is minted only by a task that finds a
\* key absent at the start and the run needs no cap.
NextRace ==
    \E t \in Tasks :
        \/ StartMemoize(t)
        \/ MvGetMany(t)
        \/ MvSetMany(t)
        \/ GetHit(t)
        \/ GetMiss(t)
        \/ Set(t)

SpecRace == Init /\ [][NextRace]_vars

\* Two tasks: one calls the memoized callable, the other resets its
\* versions with delete_memoized(f).
NextReset ==
    \/ StartMemoize("t1")
    \/ MvGetMany("t1") /\ nextTok' <= MaxTok
    \/ MvSetMany("t1")
    \/ GetHit("t1")
    \/ GetMiss("t1")
    \/ Set("t1")
    \/ StartDeleteMemoized("t2")
    \/ MvGetMany("t2") /\ nextTok' <= MaxTok
    \/ MvSetMany("t2")

SpecReset == Init /\ [][NextReset]_vars

\* The timeouts a callable is decorated with: none, 0, 50 seconds.
Timeouts == {Unset, Seconds(0), Seconds(50)}

\* The time that passes between two requests.
Elapsed == {100000, 300000}

\* The clock stops at MaxNow.
MaxNow == 400000

\* The tokens minted while the clock runs.
MaxTtlTok == 2

\* Time passes: the store drops the keys whose deadline is reached.
Tick ==
    \E d \in Elapsed :
        /\ now + d <= MaxNow
        /\ now' = now + d
        /\ versions' = [k \in {j \in DOMAIN versions :
                                  Live(deadline, j, now')} |-> versions[k]]
        /\ deadline' = [k \in DOMAIN versions' |-> deadline[k]]
        /\ derived' = IF versions' = versions THEN derived ELSE <<>>
        /\ UNCHANGED <<app, entries, nextTok, pc, loc, ret, stale,
                       cache_timeout, debug, retry, setup, counter, hist,
                       locker, lock, key_prefix, sent>>

\* make_cache_key(f, *args) for the calls the application makes.
StartCurrentVersion(t) ==
    \E c \in MemoCalls : Start(t, "make_cache_key", c)

InitTtl ==
    /\ app \in Funcs
    /\ versions = <<>>
    /\ entries = <<>>
    /\ nextTok = 0
    /\ pc = [t \in Tasks |-> "idle"]
    /\ loc = [t \in Tasks |-> IdleLoc]
    /\ ret = {}
    /\ stale = {}
    /\ derived = <<>>
    /\ cache_timeout \in Timeouts
    /\ deadline = <<>>
    /\ now = 0
    /\ debug = FALSE
    /\ LimiterIdle
    /\ LockerIdle
    /\ WireIdle

\* One task reading, resetting and deleting version keys while time
\* passes.
NextTtl ==
    \/ Tick
    \/ \E t \in {"t1"} :
          \/ StartCurrentVersion(t)
          \/ StartDeleteMemoized(t)
          \/ StartDeleteVerhash(t)
          \/ MvDelete(t)
          \/ MvGetMany(t) /\ nextTok' <= MaxTtlTok
          \/ MvSetMany(t)

SpecTtl == InitTtl /\ [][NextTtl]_vars

InitErr ==
    /\ app \in Funcs
    /\ versions = <<>>
    /\ entries = <<>>
    /\ nextTok = 0
    /\ pc = [t \in Tasks |-> "idle"]
    /\ loc = [t \in Tasks |-> IdleLoc]
    /\ ret = {}
    /\ stale = {}
    /\ derived = <<>>
    /\ cache_timeout = Unset
    /\ deadline = <<>>
    /\ now = 0
    /\ debug \in BOOLEAN
    /\ LimiterIdle
    /\ LockerIdle
    /\ WireIdle

\* One task calling memoized callables while store requests may fail.
NextErr ==
    \E t \in {"t1"} :
        \/ StartMemoize(t)
        \/ MvGetMany(t) /\ nextTok' <= MaxTok
        \/ MvSetMany(t)
        \/ GetHit(t)
        \/ GetMiss(t)
        \/ Set(t)
        \/ ReadFail(t)
        \/ Recompute(t)
        \/ WriteFail(t)

SpecErr == InitErr /\ [][NextErr]_vars

\* One task calling callables decorated with ememoize while store
\* requests may fail.
NextE ==
    \E t \in {"t1"} :
        \/ StartEmemoize(t)
        \/ EMakeCacheKey(t)
        \/ EGetHit(t)
        \/ EGetMiss(t)
        \/ ESet(t)
        \/ EReadFail(t)
        \/ ERecompute(t)
        \/ EWriteFail(t)

SpecE == InitErr /\ [][NextE]_vars

\* One task calling callables decorated with memoize, with ememoize and
\* with cached, over one store.
NextNone ==
    \E t \in {"t1"} :
        \/ StartMemoize(t)
        \/ MvGetMany(t) /\ nextTok' <= MaxTok
        \/ MvSetMany(t)
        \/ GetHit(t)
        \/ GetMiss(t)
        \/ Set(t)
        \/ StartEmemoize(t)
        \/ EMakeCacheKey(t)
        \/ EGetHit(t)
        \/ EGetMiss(t)
        \/ ESet(t)
        \/ StartCached(t)
        \/ CGetHit(t)
        \/ CGetMiss(t)
        \/ CSet(t)

SpecNone == Init /\ [][NextNone]_vars

\* The store after calls of the functions decorated with ememoize, of a
\* cached view and of the memoized add: any of their entries, and the
\* version key of add or none.
InitEDelete ==
    /\ app = "add"
    /\ \E had_add \in BOOLEAN :
          /\ versions =
                IF had_add
                THEN cache_set(<<>>, memvname(function_ns("add")),
                               memoize_make_version_hash(1))
                ELSE <<>>
          /\ nextTok = IF had_add THEN 1 ELSE 0
    /\ entries \in {[k \in S |-> dumps(<<"5">>)] : S \in SUBSET EStoredKeys}
    /\ pc = [t \in Tasks |-> "idle"]
    /\ loc = [t \in Tasks |-> IdleLoc]
    /\ ret = {}
    /\ stale = {}
    /\ derived = <<>>
    /\ cache_timeout = Unset
    /\ deadline = [k \in DOMAIN versions |-> Never]
    /\ now = 0
    /\ debug = FALSE
    /\ LimiterIdle
    /\ LockerIdle
    /\ WireIdle

\* One task calling edelete_memoized.
NextEDelete ==
    \E t \in {"t1"} :
        \/ StartEDeleteMemoized(t)
        \/ DeletePrefix(t)

SpecEDelete == InitEDelete /\ [][NextEDelete]_vars

InitLimit ==
    /\ app = "add"
    /\ versions = <<>>
    /\ entries = <<>>
    /\ nextTok = 0
    /\ pc = [t \in Tasks |-> "idle"]
    /\ loc = [t \in Tasks |-> IdleLoc]
    /\ ret = {}
    /\ stale = {}
    /\ derived = <<>>
    /\ cache_timeout = Unset
    /\ deadline = <<>>
    /\ now = 0
    /\ debug = FALSE
    /\ retry \in RetryConfigs
    /\ setup = "pending"
    /\ counter = NoCounter
    /\ hist = NoHist
    /\ LockerIdle
    /\ WireIdle

\* The limiter is set up, and one client makes attempt after attempt on
\* one counter key.
NextLimit ==
    \/ RetryLimiter
    \/ \E t \in {"t1"} :
          \/ RlTick(t)
          \/ StartAttempt(t)
          \/ RlInc(t)
          \/ RlExpire(t)
          \/ RlTtl(t)
          \/ RlCall(t)
          \/ RlDelete(t)

SpecLimit == InitLimit /\ [][NextLimit]_vars

\* The limiter is set up, and two clients make attempts on one counter
\* key at the same time, while time passes and the views clear the
\* counter.
NextLimit2 ==
    \/ RetryLimiter
    \/ RlElapse
    \/ \E t \in Tasks :
          \/ StartAttempt(t)
          \/ RlInc(t)
          \/ RlExpire(t)
          \/ RlTtl(t)
          \/ RlCall(t)
          \/ RlDelete(t)
          \/ RlClear(t)

SpecLimit2 == InitLimit /\ [][NextLimit2]_vars

InitLock ==
    /\ app = "add"
    /\ versions = <<>>
    /\ entries = <<>>
    /\ nextTok = 0
    /\ pc = [t \in Tasks |-> "idle"]
    /\ loc = [t \in Tasks |-> IdleLoc]
    /\ ret = {}
    /\ stale = {}
    /\ derived = <<>>
    /\ cache_timeout = Unset
    /\ deadline = <<>>
    /\ now = 0
    /\ debug = FALSE
    /\ LimiterIdle
    /\ locker \in LockerConfigs
    /\ lock = NoLock
    /\ WireIdle

\* Tasks calling one operation decorated with locker, under one lock
\* name, while time passes.
NextLock ==
    \/ LkTick
    \/ \E t \in Tasks :
          \/ StartLocked(t)
          \/ LkAcquire(t)
          \/ LkWake(t)
          \/ LkFinish(t)
          \/ LkRelease(t)

SpecLock == InitLock /\ [][NextLock]_vars

InitWire ==
    /\ app = "add"
    /\ versions = <<>>
    /\ entries = <<>>
    /\ nextTok = 0
    /\ pc = [t \in Tasks |-> "idle"]
    /\ loc = [t \in Tasks |-> IdleLoc]
    /\ ret = {}
    /\ stale = {}
    /\ derived = <<>>
    /\ cache_timeout = Unset
    /\ deadline = <<>>
    /\ now = 0
    /\ debug = FALSE
    /\ LimiterIdle
    /\ LockerIdle
    /\ key_prefix \in {Prefix, <<>>}
    /\ sent = {}

\* The operations of the cache, called with keys of every family.
NextWire == \E t \in {"t1"} : Wire(t)

SpecWire == InitWire /\ [][NextWire]_vars

----------------------------------------------------------------------------
(* Key derivation, checked under SpecKey.                                  *)

\* The version string a call of c is given now, every version key present.
StoredVersion(c) ==
    join_tokens(get_many(versions,
                         fetch_keys_of(c.f, NoName, ArgNames(c.f), c.args)))

\* C5: a key derived twice for one call while the version keys stay as
\* they are is the same key, and the keys derived for two calls of a
\* callable whose bound arguments differ in an element differ.
C5_KeyDeterministicAndSensitive ==
    Len(derived) = 2 =>
        /\ derived[1].call = derived[2].call
              => derived[1].key = derived[2].key
        /\ BoundArgs(derived[1].call) # BoundArgs(derived[2].call)
              => derived[1].key # derived[2].key

\* C6: two calls that bind the same value to every declared parameter, by
\* position, by keyword or by a default left out, are normalized to the
\* same tuple and derive the same key.
C6_SameBindingSameKey ==
    Len(derived) = 2
    /\ BoundArgs(derived[1].call) = BoundArgs(derived[2].call)
    => /\ KeyId(derived[1].call) = KeyId(derived[2].call)
       /\ derived[1].key = derived[2].key

\* add(1, b=2) after add(a=1) (b left to its default), under one version.
C6_Witness ==
    /\ Len(derived) = 2
    /\ derived[1].call = Call("add", NoName, <<>>, [x \in {"a"} |-> V1])
    /\ derived[2].call = Call("add", NoName, <<V1>>, [x \in {"b"} |-> V2])
    /\ derived[1].key = derived[2].key

----------------------------------------------------------------------------
(* The Version Ledger, checked under SpecKey.                              *)

\* Task t takes a step of the operation it is in.
Steps(t) == pc[t] # "idle" /\ <<pc[t], loc[t]>> # <<pc'[t], loc'[t]>>

\* The tokens the store holds under version keys.
StoredTokens == {loads(versions[k]) : k \in DOMAIN versions}

\* memoize_version(f, args) of task t has returned.
VersionReturned(t) ==
    /\ loc[t].op \in KeyOps
    /\ pc[t] \notin {"mv_get_many", "mv_set_many"}

\* get_many of a currentVersion call: a token is minted for each absent
\* key, and for no other; with no key absent nothing is written.
C7_ReadStep(t) ==
    LET keys == loc[t].fetch_keys
        got == get_many(versions, keys)
        list == loc'[t].version_data_list
        absent == {i \in 1..Len(keys) : got[i] = None}
    IN  /\ Len(list) = Len(keys)
        /\ \A i \in 1..Len(keys) :
              IF i \in absent
              THEN /\ list[i] \notin StoredTokens
                   /\ \A j \in absent : j # i => list[j] # list[i]
                   /\ \E w \in 1..Len(loc'[t].writes) :
                         loc'[t].writes[w] = <<keys[i], list[i]>>
              ELSE list[i] = got[i]
        /\ nextTok' = nextTok + Cardinality(absent)
        /\ absent = {} => loc'[t].writes = <<>> /\ pc'[t] # "mv_set_many"

\* C7: currentVersion mints and writes a token for each consulted version
\* key that is absent; when it has returned every consulted key is in the
\* store and the string returned is the function token followed by the
\* instance token, as stored; a second call with no write in between
\* returns the same string and writes nothing.
C7_CurrentVersion ==
    /\ [](\A t \in Tasks : VersionReturned(t) =>
            /\ \A i \in 1..Len(loc[t].fetch_keys) :
                  loc[t].fetch_keys[i] \in DOMAIN versions
            /\ loc[t].cache_key.ver
                  = join_tokens(get_many(versions, loc[t].fetch_keys))
            /\ loc[t].fetch_keys[1] = memvname(function_ns(loc[t].call.f)))
    /\ [](Len(derived) = 2
          /\ StoredVersion(derived[1].call) = StoredVersion(derived[2].call)
          => derived[1].key.ver = derived[2].key.ver)
    /\ [][\A t \in Tasks :
            Steps(t) /\ pc[t] = "mv_get_many" /\ loc[t].op \in KeyOps
            => C7_ReadStep(t)]_vars

\* A method call found both version keys absent and minted both tokens,
\* and a second call of it has returned the same string.
C7_Witness ==
    /\ pc["t1"] = "idle"
    /\ loc["t1"].op = "make_cache_key"
    /\ Len(loc["t1"].fetch_keys) = 2
    /\ Len(derived) = 2
    /\ derived[1].call = derived[2].call
    /\ nextTok = 2

----------------------------------------------------------------------------
(* The memoizer and its invalidation, checked under Spec.                  *)

\* A call of the memoized callable by task t has returned.
Returned(t) == pc[t] = "idle" /\ loc[t].op = "memoize"

\* The key a call of c is looked up under now.
CurrentKey(c) == cache_key_of(c.f, c.args, c.kwargs, StoredVersion(c))

\* Every version key of the store keeps its token in the step.
TokensKept == \A k \in DOMAIN versions :
                 k \in DOMAIN versions' /\ versions'[k] = versions[k]

\* The stores differ at most at key k.
SameExceptAt(before, after, k) ==
    /\ DOMAIN after \ {k} = DOMAIN before \ {k}
    /\ \A j \in DOMAIN before \ {k} : after[j] = before[j]

\* C1: once a call with arguments A has returned, a later call with the
\* same A (no invalidation in between) returns the same value and does not
\* invoke the wrapped callable; a call with other arguments, none such
\* having returned before, invokes it.
C1_RepeatHitsOthersCompute ==
    \A t \in Tasks : Returned(t) =>
        /\ loc[t].prior # NoName
              => loc[t].rv = loc[t].prior /\ ~loc[t].invoked
        /\ loc[t].prior = NoName => loc[t].invoked

\* C2: for every argument tuple a call with which had returned when a
\* reset delete_memoized(f) in whose scope it lies completed, the next
\* call with that tuple invokes the wrapped callable; a reset of the
\* function scope reaches the tuples of every instance.
C2_ResetInvalidates ==
    \A t \in Tasks : Returned(t) /\ loc[t].was_stale => loc[t].invoked

\* C3: delete_memoized(f, *A), a call with A having returned before,
\* removes the entry under the key of (f, A) and no other; the version
\* tokens present stay as they are; afterwards a call with A misses, and
\* every call with another argument tuple that had returned and hit
\* before still hits.
C3_DeleteArgsFrame ==
    [][\A t \in Tasks :
        Steps(t) /\ loc[t].op = "delete_memoized_args"
        /\ loc[t].prior # NoName =>
            /\ TokensKept
            /\ pc[t] # "delete" => entries' = entries
            /\ pc[t] = "delete" =>
                  /\ versions' = versions
                  /\ loc[t].cache_key = CurrentKey(loc[t].call)
                  /\ CurrentKey(loc[t].call) \notin DOMAIN entries'
                  /\ SameExceptAt(entries, entries',
                                  CurrentKey(loc[t].call))
                  /\ ~HitIn(versions', entries', loc[t].call)
                  /\ \A m \in MemoCalls :
                        /\ RawId(m) # RawId(loc[t].call)
                        /\ \E r \in ret : r.raw = RawId(m)
                        /\ WouldHit(m)
                        => HitIn(versions', entries', m)]_vars

\* The version key a reset or a deletion issued as call c is aimed at.
ScopeKey(c) ==
    IF c.bound # NoName
    THEN memvname(translate(join_dot(<<Module(c.f), QualName(c.f),
                                       repr(c.bound)>>)))
    ELSE memvname(function_ns(c.f))

\* C4: a version reset writes one version key, the instance-scoped one
\* when there is an instance token and the function-scoped one otherwise,
\* with a token not seen before; no other version key and no entry
\* changes; afterwards no call in the scope of the reset hits, and every
\* call outside it that hit before still hits.
C4_ResetFrame ==
    [][\A t \in Tasks :
        Steps(t) /\ loc[t].op = "delete_memoized" =>
            LET c == loc[t].call
            IN  /\ entries' = entries
                /\ pc[t] = "mv_get_many" =>
                      /\ versions' = versions
                      /\ Len(loc'[t].writes) = 1
                      /\ loc'[t].writes[1][1] = ScopeKey(c)
                      /\ loc'[t].writes[1][2] \notin StoredTokens
                      /\ loc'[t].writes[1][2]
                            = memoize_make_version_hash(nextTok')
                /\ pc[t] = "mv_set_many" =>
                      /\ pc'[t] = "idle"
                      /\ SameExceptAt(versions, versions', ScopeKey(c))
                      /\ ScopeKey(c) \in DOMAIN versions'
                      /\ loads(versions'[ScopeKey(c)]) \notin StoredTokens
                      /\ \A m \in MemoCalls :
                            IF InScope(c, KeyId(m))
                            THEN ~HitIn(versions', entries', m)
                            ELSE WouldHit(m)
                                 => HitIn(versions', entries', m)]_vars

\* delete_memoized(a1.get) has returned: a1.get(1), cached before, misses
\* and a2.get(1) still hits.
C4_Witness ==
    /\ pc["t1"] = "idle"
    /\ loc["t1"].op = "delete_memoized"
    /\ loc["t1"].call.bound = Inst1
    /\ RawId(Call("get", NoName, <<Inst1, V1>>, NoKwargs)) \in stale
    /\ ~WouldHit(Call("get", NoName, <<Inst1, V1>>, NoKwargs))
    /\ WouldHit(Call("get", NoName, <<Inst2, V1>>, NoKwargs))

\* C9: delete_memoized_verhash on a bound method removes the
\* instance-scoped version key and nothing else: the function-scoped key,
\* the keys of other instances and every entry stay, no token is minted.
C9_DeleteInstanceVersion ==
    [][\A t \in Tasks :
        Steps(t) /\ loc[t].op = "delete_memoized_verhash"
        /\ loc[t].call.bound # NoName =>
            /\ ScopeKey(loc[t].call) \notin DOMAIN versions'
            /\ SameExceptAt(versions, versions', ScopeKey(loc[t].call))
            /\ entries' = entries
            /\ nextTok' = nextTok]_vars

\* delete_memoized_verhash(a1.get) has returned: the key of a1 was there
\* and is gone, those of the function and of a2 are still there.
C9_Witness ==
    /\ pc["t1"] = "idle"
    /\ loc["t1"].op = "delete_memoized_verhash"
    /\ loc["t1"].call.bound = Inst1
    /\ ScopeKey(loc["t1"].call) \in loc["t1"].had
    /\ ScopeKey(loc["t1"].call) \notin DOMAIN versions
    /\ memvname(function_ns("get")) \in DOMAIN versions
    /\ ScopeKey(Call("get", Inst2, <<>>, NoKwargs)) \in DOMAIN versions

\* C10 as stated: delete_memoized_verhash on a plain function deletes
\* nothing, the function-scoped token stays and the calls that hit before
\* still hit.
C10_DeletesNothing ==
    [][\A t \in Tasks :
        Steps(t) /\ loc[t].op = "delete_memoized_verhash"
        /\ loc[t].call.bound = NoName =>
            /\ versions' = versions
            /\ \A m \in MemoCalls :
                  WouldHit(m) => HitIn(versions', entries', m)]_vars

\* C10 as amended: delete_memoized_verhash on a plain function (or on a
\* method taken from its class) removes the function-scoped version key
\* and nothing else; no token is minted by it and no entry changes;
\* afterwards no call of the callable hits.
C10_DeletesFunctionVersion ==
    [][\A t \in Tasks :
        Steps(t) /\ loc[t].op = "delete_memoized_verhash"
        /\ loc[t].call.bound = NoName =>
            /\ ScopeKey(loc[t].call) = memvname(function_ns(loc[t].call.f))
            /\ ScopeKey(loc[t].call) \notin DOMAIN versions'
            /\ SameExceptAt(versions, versions', ScopeKey(loc[t].call))
            /\ entries' = entries
            /\ nextTok' = nextTok
            /\ \A m \in MemoCalls :
                  m.f = loc[t].call.f => ~HitIn(versions', entries', m)]_vars

\* delete_memoized_verhash(add) has returned: the function-scoped key was
\* there and is gone, and the entry of add(1, 2) is still in the store.
C10_Witness ==
    /\ pc["t1"] = "idle"
    /\ loc["t1"].op = "delete_memoized_verhash"
    /\ loc["t1"].call = Call("add", NoName, <<>>, NoKwargs)
    /\ memvname(function_ns("add")) \in loc["t1"].had
    /\ memvname(function_ns("add")) \notin DOMAIN versions
    /\ \E k \in DOMAIN entries : cache_get(entries, k) # None

----------------------------------------------------------------------------
(* Concurrent first accesses, checked under SpecRace.                      *)

\* C8: once every task that found a version key absent has written its
\* token, the key keeps the token it holds, and a call started when each
\* of its version keys is so settled derives its key from those tokens.
C8_RaceSettles ==
    /\ [][\A k \in DOMAIN versions :
            Settled(k) =>
                k \in DOMAIN versions' /\ versions'[k] = versions[k]]_vars
    /\ [](\A t \in Tasks :
            Returned(t) /\ loc[t].expect # NoName
            => loc[t].cache_key.ver = loc[t].expect)

----------------------------------------------------------------------------
(* Expiry of version keys, checked under SpecTtl.                          *)

\* C11, as stated: with no timeout configured a version key carries no
\* expiry; whatever time passes, every version key stays in the store
\* with its token.
C11_VersionNeverExpires ==
    [][cache_timeout = Unset /\ now' > now
       => \A k \in DOMAIN versions :
              k \in DOMAIN versions' /\ versions'[k] = versions[k]]_vars

\* C11, amended: with no timeout configured a version key is written
\* with the store's default timeout; while time passes it stays, with its
\* token, as long as less than default_timeout has elapsed since it was
\* last written, and is gone once that much has elapsed.
C11_VersionDefaultExpiry ==
    [][cache_timeout = Unset
       => /\ \A t \in Tasks :
                pc[t] = "mv_set_many" /\ Steps(t)
                => deadline'[Head(loc[t].writes)[1]]
                       = now + 1000 * default_timeout
          /\ now' > now
             => \A k \in DOMAIN versions :
                    IF now' < deadline[k]
                    THEN k \in DOMAIN versions'
                         /\ versions'[k] = versions[k]
                    ELSE k \notin DOMAIN versions']_vars

\* No timeout configured: the one token ever minted was written by a
\* make_cache_key call, nothing was reset or deleted since, and after
\* default_timeout seconds its key is no longer in the store.
C11_Witness ==
    /\ cache_timeout = Unset
    /\ pc["t1"] = "idle"
    /\ loc["t1"].op = "make_cache_key"
    /\ nextTok = 1
    /\ now >= 1000 * default_timeout
    /\ versions = <<>>

----------------------------------------------------------------------------
(* Store failures in the versioned memoizer, checked under SpecErr.        *)

\* The memoized call of task t is over, the store having failed at one of
\* the stages.
FailedAt(t, stages) ==
    /\ pc[t] = "idle"
    /\ loc[t].op = "memoize"
    /\ loc[t].failed \in stages

\* C12: when the store fails while the key is derived or the value is
\* read, outside debug mode nothing is raised, the wrapped callable has
\* run exactly once and its result is what the caller gets; in debug mode
\* the failure is raised and the wrapped callable has not run.
C12_ReadFailureDegrades ==
    \A t \in Tasks :
        FailedAt(t, {"version", "get"})
        => IF debug
           THEN loc[t].raised /\ loc[t].calls = 0
           ELSE /\ ~loc[t].raised
                /\ loc[t].calls = 1
                /\ loc[t].rv = loc[t].computed
                /\ loc[t].rv \in ResultsOf(loc[t].call)

\* Outside debug mode self.get failed for a key the store holds a value
\* under: the callable ran once and the caller has its result.
C12_Witness ==
    /\ ~debug
    /\ FailedAt("t1", {"get"})
    /\ cache_get(entries, loc["t1"].cache_key) # None
    /\ ~loc["t1"].raised
    /\ loc["t1"].calls = 1
    /\ loc["t1"].rv = loc["t1"].computed

\* C13, as stated: a failure of the store while the result is written or
\* while the version token is computed is raised to the caller.
C13_WriteAndVersionFailuresRaised ==
    \A t \in Tasks : FailedAt(t, {"set", "version"}) => loc[t].raised

\* C13, amended: such a failure is raised to the caller in debug mode, and
\* only then; outside debug mode the caller gets the result the wrapped
\* callable computed, which ran once.
C13_WriteAndVersionFailuresRaisedInDebug ==
    \A t \in Tasks :
        FailedAt(t, {"set", "version"})
        => /\ loc[t].raised <=> debug
           /\ ~debug => /\ loc[t].calls = 1
                        /\ loc[t].rv = loc[t].computed

\* Outside debug mode self.set failed and stored nothing: the caller has
\* the computed result all the same.
C13_Witness ==
    /\ ~debug
    /\ FailedAt("t1", {"set"})
    /\ cache_get(entries, loc["t1"].cache_key) = None
    /\ ~loc["t1"].raised
    /\ loc["t1"].rv = loc["t1"].computed

----------------------------------------------------------------------------
(* Store failures in the unversioned memoizer, checked under SpecE.        *)

\* The ememoize call of task t is over.
EDone(t) == pc[t] = "idle" /\ loc[t].op = "ememoize"

\* C14: when key derivation or the read fails, nothing is raised, the
\* wrapped callable has run and its result is what the caller gets; when
\* the write after a miss fails, the failure is raised and the caller gets
\* no result; after a miss and a successful write the caller has the
\* computed result and the store holds it under the key
\* e_make_cache_key gives for the call.
C14_EmemoizeFailures ==
    \A t \in Tasks :
        EDone(t)
        => LET l == loc[t]
               key == e_make_cache_key(l.call.f, l.call.args, l.call.kwargs)
           IN  /\ l.failed \in {"key", "get"}
                  => ~l.raised /\ l.calls = 1 /\ l.rv = l.computed
               /\ l.failed = "set" => l.raised /\ l.calls = 1
               /\ l.failed = "none" /\ l.calls = 1
                  => /\ ~l.raised
                     /\ l.rv = l.computed
                     /\ raw_get(entries, key) = dumps(l.rv)

\* Outside debug mode the write of a computed result failed and stored
\* nothing: the failure is raised.
C14_Witness ==
    /\ ~debug
    /\ EDone("t1")
    /\ loc["t1"].failed = "set"
    /\ loc["t1"].calls = 1
    /\ loc["t1"].raised
    /\ loc["t1"].ekey \notin DOMAIN entries

----------------------------------------------------------------------------
(* The retry limiter, checked under SpecLimit.                             *)

\* The attempt of task t is over, and no time has passed since.
AttemptDone(t) ==
    /\ pc[t] = "idle"
    /\ loc[t].op = "retry_limiter"
    /\ hist.gap = 0

\* The attempt of task t has its count.
Counted(t) ==
    /\ loc[t].op = "retry_limiter"
    /\ pc[t] # "rl_inc"
    /\ valid_mode(retry.mode)

\* C15: frt mode, the counter absent at the start, no success response
\* so far and every attempt inside the window the first one opened: each
\* of the first max_retry_times attempts invokes the operation, and
\* attempt max_retry_times + 1 is rejected, the operation not invoked,
\* with the time the counter has left to live.
C15_FrtWindow ==
    \A t \in Tasks :
        /\ AttemptDone(t)
        /\ retry.mode = "frt"
        /\ hist.streak = hist.attempts
        /\ now < 1000 * retry.timeout
        => /\ hist.attempts <= retry.max_retry_times
              => loc[t].invoked /\ loc[t].response # "rejected"
           /\ hist.attempts = retry.max_retry_times + 1
              => /\ ~loc[t].invoked
                 /\ loc[t].response = "rejected"
                 /\ loc[t].result =
                       Seconds((1000 * retry.timeout - now + 500) \div 1000)

\* C16: when the operation returns a response with status 200 the
\* counter key is gone when the wrapper returns, live as it was; the
\* first attempt after that counts 1, and the first max_retry_times
\* attempts after that are allowed.
C16_SuccessClears ==
    /\ [][\A t \in Tasks :
            /\ pc[t] # "idle"
            /\ pc'[t] = "idle"
            /\ loc'[t].op = "retry_limiter"
            /\ loc'[t].retval = "ok200"
            => counter.count > 0 /\ counter' = NoCounter]_vars
    /\ [](\A t \in Tasks :
            Counted(t) /\ hist.streak \in 1..retry.max_retry_times
            => /\ hist.streak = 1 => loc[t].retry_time = 1
               /\ loc[t].response # "rejected"
               /\ pc[t] = "idle" => loc[t].invoked)

\* Two attempts 100 ms apart under a 30 s window: the first got a
\* response with status 200, and the second counted 1 and was allowed.
C16_Witness ==
    /\ AttemptDone("t1")
    /\ retry.timeout = 30
    /\ hist.attempts = 2
    /\ hist.gaps = {100}
    /\ hist.streak = 1
    /\ loc["t1"].retry_time = 1
    /\ loc["t1"].invoked

\* ert mode, max 2, timeout 5 s, the attempts so far 3 s apart.
Ert3 == retry = Retry("ert", 2, 5) /\ hist.gaps \subseteq {3000}

\* C17, as stated: in ert mode with max 2 and timeout 5 s, attempts 3 s
\* apart are never rejected.
C17_ErtNeverRejects ==
    \A t \in Tasks :
        Ert3 /\ AttemptDone(t) => loc[t].response # "rejected"

\* C17, amended: in ert mode with max 2 and timeout 5 s and attempts 3 s
\* apart the counter never expires: each attempt counts one more than
\* the attempt before unless that one cleared the counter, the attempts
\* that count 1 and 2 are allowed, and every attempt that counts more is
\* rejected, with a full window of 5 s to wait.
C17_ErtCounterNeverExpires ==
    \A t \in Tasks :
        Ert3 /\ AttemptDone(t)
        => /\ hist.streak > 0 => loc[t].retry_time = hist.streak
           /\ loc[t].response = "rejected" <=> loc[t].retry_time > 2
           /\ loc[t].response = "rejected"
              => ~loc[t].invoked /\ loc[t].result = Seconds(5)

\* The third of three attempts 3 s apart, none of them answered with
\* status 200, is rejected.
C17_Witness ==
    /\ Ert3
    /\ AttemptDone("t1")
    /\ hist.attempts = 3
    /\ hist.gaps = {3000}
    /\ loc["t1"].retry_time = 3
    /\ loc["t1"].response = "rejected"

\* ert mode, max 2, timeout 5 s, the attempts so far 6 s apart.
Ert6 == retry = Retry("ert", 2, 5) /\ hist.gaps \subseteq {6000}

\* C18: in ert mode with max 2 and timeout 5 s and attempts 6 s apart,
\* the counter key is absent when an attempt starts, every increment
\* returns 1 and no attempt is rejected.
C18_ErtNeverAccumulates ==
    \A t \in Tasks :
        Ert6 /\ loc[t].op = "retry_limiter"
        => /\ pc[t] = "rl_inc" => counter = NoCounter
           /\ pc[t] # "rl_inc" => loc[t].retry_time = 1
           /\ loc[t].response # "rejected"

\* The third of three attempts 6 s apart, none of them answered with
\* status 200, counts 1.
C18_Witness ==
    /\ Ert6
    /\ AttemptDone("t1")
    /\ hist.attempts = 3
    /\ hist.streak = 3
    /\ hist.gaps = {6000}
    /\ loc["t1"].retry_time = 1
    /\ loc["t1"].invoked

\* C19: an attempt whose increment returned more than max_retry_times
\* does not invoke the operation and ends with the rejection; the
\* operation is invoked only for a count within the threshold.
C19_RejectedAboveThreshold ==
    \A t \in Tasks :
        Counted(t)
        => /\ loc[t].retry_time > retry.max_retry_times
              => /\ ~loc[t].invoked
                 /\ pc[t] = "idle" => loc[t].response = "rejected"
           /\ loc[t].invoked
              => loc[t].retry_time <= retry.max_retry_times

\* C20, as stated: no call of a decorated operation raises a
\* configuration error.
C20_NoConfigErrorAtCall ==
    \A t \in Tasks : loc[t].response # "config_error"

\* C20, amended: a max_retry_times below 1 is rejected when the limiter
\* is set up, and by nothing later; a mode other than ert and frt passes
\* the setup, and then every call raises the configuration error, with
\* the counter untouched and the operation not invoked; no call raises it
\* for another reason.
C20_ConfigErrors ==
    /\ setup = "rejected" => retry.max_retry_times < 1
    /\ setup = "done" => retry.max_retry_times >= 1
    /\ hist.attempts > 0 => setup = "done"
    /\ \A t \in Tasks :
          loc[t].op = "retry_limiter"
          => /\ loc[t].response = "config_error" <=> ~valid_mode(retry.mode)
             /\ loc[t].raised <=> ~valid_mode(retry.mode)
             /\ ~valid_mode(retry.mode)
                => counter = NoCounter /\ ~loc[t].invoked

\* The limiter was set up with mode "xrt", and the second call of the
\* decorated operation has raised the configuration error.
C20_Witness ==
    /\ retry.mode = "xrt"
    /\ setup = "done"
    /\ AttemptDone("t1")
    /\ hist.attempts = 2
    /\ loc["t1"].raised
    /\ loc["t1"].response = "config_error"

----------------------------------------------------------------------------
(* The lock wrapper, checked under SpecLock.                               *)

\* The tasks inside the protected operation.
Inside == {t \in Tasks : pc[t] = "lk_f"}

\* C21: with blocking enabled, at most one task is inside the protected
\* operation at any moment.
C21_MutualExclusion ==
    blocking(locker.timeout) => Cardinality(Inside) <= 1

\* C22: once a call that acquired the lock has ended, by return or by
\* exception, the store no longer holds the record it acquired: the
\* release of a record still held deletes it, so the lock name is free at
\* once, and the release leaves a record of another token alone.
C22_Released ==
    /\ [](\A t \in Tasks :
            pc[t] = "idle" /\ loc[t].op = "locker" /\ loc[t].held
            => lock.owner # t)
    /\ [][\A t \in Tasks :
            pc[t] = "lk_release" /\ pc'[t] = "idle"
            => IF lock.owner = t THEN lock' = NoLock ELSE lock' = lock]_vars

\* The protected operation raised one second into a lease of three: the
\* call has ended and the lock name is free.
C22_Witness ==
    /\ locker.timeout = 3
    /\ now = 1000
    /\ pc["t1"] = "idle"
    /\ loc["t1"].op = "locker"
    /\ loc["t1"].held
    /\ loc["t1"].response = "raised"
    /\ pc["t2"] = "idle"
    /\ lock = NoLock

\* C23: while a task is inside the protected operation, the store holds
\* the lock record under that task's token.
C23_LeaseValid ==
    \A t \in Tasks : pc[t] = "lk_f" => lock.owner = t

\* The call of task t is in Lock.acquire.
Acquiring(t) ==
    loc[t].op = "locker" /\ pc[t] \in {"lk_acquire", "lk_sleep"}

\* C24: with timeout 0 the lock is tried once and never slept on; with a
\* timeout the tries are one polling interval apart and none is made
\* later than blocking_timeout after the first; a call whose acquisition
\* failed has not invoked the operation, has raised nothing and returns
\* nothing, and the try that fails leaves the lock record as it is.
C24_AcquisitionFailure ==
    /\ [](\A t \in Tasks :
            loc[t].op = "locker"
            => /\ locker.timeout = 0
                  => loc[t].tries <= 1 /\ pc[t] # "lk_sleep"
               /\ locker.timeout # 0 /\ Acquiring(t)
                  => /\ now <= loc[t].stop_at
                     /\ pc[t] = "lk_acquire"
                        => now = loc[t].stop_at
                                 - 1000 * locker.blocking_timeout
                                 + loc[t].tries * locker.sleep
                     /\ pc[t] = "lk_sleep"
                        => loc[t].wake_at <= loc[t].stop_at
               /\ loc[t].response = "empty"
                  => /\ pc[t] = "idle"
                     /\ ~loc[t].held
                     /\ ~loc[t].invoked
                     /\ ~loc[t].raised)
    /\ [][\A t \in Tasks :
            pc[t] = "lk_acquire" /\ pc'[t] \in {"idle", "lk_sleep"}
            => lock' = lock]_vars

\* With a lease of three seconds and a wait of two, a call has tried
\* three times while the other task was inside the operation, and has
\* returned nothing.
C24_Witness ==
    /\ locker = Locker(3, 1000, 2)
    /\ pc["t1"] = "idle"
    /\ loc["t1"].response = "empty"
    /\ loc["t1"].tries = 3
    /\ pc["t2"] = "lk_f"
    /\ lock.owner = "t2"

----------------------------------------------------------------------------
(* The namespace prefix, checked under SpecWire.                           *)

\* C25: every key handed to the store is the namespace prefix followed by
\* the key the operation was called with.
C25_PrefixedOnce ==
    \A s \in sent : s.raw = prefixed(key_prefix, s.logical)

----------------------------------------------------------------------------
(* A version reset against a version read, checked under SpecReset.        *)

\* C28: a write of the version read of a memoized call changes the token
\* of no version key that the call found present when it read the keys:
\* a token that a reset stored in between stays.
C28_ResetNotUndone ==
    [][\A t \in Tasks :
          /\ loc[t].op \in KeyOps
          /\ pc[t] = "mv_set_many"
          /\ loc'[t] # loc[t]
          => \A k \in DOMAIN versions \ loc[t].absent :
                versions'[k] = versions[k]]_vars

----------------------------------------------------------------------------
(* A stored None, checked under SpecNone.                                  *)

\* The key task t reads and writes.
KeyOf(t) == IF loc[t].op = "memoize" THEN loc[t].cache_key ELSE loc[t].ekey

\* Task t is about to read its key, and the store holds a pickled None
\* under it.
ReadsNone(t) ==
    /\ loc[t].op \in {"memoize", "ememoize", "cached"}
    /\ pc[t] \in {"get", "e_get", "c_get"}
    /\ KeyOf(t) \in DOMAIN entries
    /\ entries[KeyOf(t)] = dumps(None)

\* C29: in memoize, ememoize and cached, a call that invoked the callable
\* and got None has written the pickled None under its key when it is
\* over; and a call that reads a key holding a pickled None invokes the
\* callable and goes on to write the entry.
C29_NoneIsMiss ==
    /\ [](\A t \in Tasks :
            /\ loc[t].op \in {"memoize", "ememoize", "cached"}
            /\ pc[t] = "idle"
            /\ loc[t].invoked
            /\ loc[t].rv = None
            => /\ KeyOf(t) \in DOMAIN entries
               /\ entries[KeyOf(t)] = dumps(None))
    /\ [][\A t \in Tasks :
            ReadsNone(t) /\ pc'[t] # pc[t]
            => /\ pc'[t] \in {"set", "e_set", "c_set"}
               /\ loc'[t].invoked
               /\ loc'[t].calls = 1]_vars

\* add(2, 2) returned None under each of the three decorators and the
\* store holds the three pickled None; a further call of the cached view
\* has read its entry, has invoked add again and is about to rewrite it.
C29_Witness ==
    /\ app = "add"
    /\ \E k \in DOMAIN entries :
          "digest" \in DOMAIN k /\ entries[k] = dumps(None)
    /\ e_make_cache_key("add", <<V2, V2>>, NoKwargs) \in DOMAIN entries
    /\ entries[e_make_cache_key("add", <<V2, V2>>, NoKwargs)] = dumps(None)
    /\ loc["t1"].op = "cached"
    /\ pc["t1"] = "c_set"
    /\ loc["t1"].invoked
    /\ loc["t1"].rv = None
    /\ KeyOf("t1") \in DOMAIN entries
    /\ entries[KeyOf("t1")] = dumps(None)

----------------------------------------------------------------------------
(* The deletion by prefix, checked under SpecEDelete.                      *)

\* Key k of the store of values is an entry of ememoize for the function
\* and the leading arguments of call c.
BelongsTo(k, c) ==
    LET target == e_make_cache_key(c.f, c.args, c.kwargs)
    IN  /\ "name" \in DOMAIN k
        /\ k.name = target.name
        /\ Len(k.parts) >= Len(target.parts)
        /\ SubSeq(k.parts, 1, Len(target.parts)) = target.parts

----------------------------------------------------------------------------
(* The window of the retry limiter, checked under SpecLimit.               *)

\* C26: in frt mode a step that gives the counter a new expiry deadline is
\* the expire of the attempt whose increment returned 1, and sets it to
\* the time of that attempt plus the timeout; the increment of every
\* later attempt of the window leaves the deadline as it is and is not
\* followed by an expire.
C26_FrtExpiryFixed ==
    [][retry.mode = "frt"
       => /\ counter'.count # 0 /\ counter'.expires # counter.expires
             => \E t \in Tasks :
                  /\ pc[t] = "rl_expire"
                  /\ loc[t].retry_time = 1
                  /\ counter'.expires = now + 1000 * retry.timeout
          /\ \A t \in Tasks :
                pc[t] = "rl_inc" /\ pc'[t] # "rl_inc" /\ counter.count >= 1
                => /\ counter'.count = counter.count + 1
                   /\ counter'.expires = counter.expires
                   /\ pc'[t] # "rl_expire"]_vars

\* The third attempt of a window of 30 s, made 6 s after its start, is
\* rejected and the counter still expires 30 s after the first attempt.
C26_Witness ==
    /\ retry = Retry("frt", 2, 30)
    /\ AttemptDone("t1")
    /\ hist.attempts = 3
    /\ hist.gaps = {3000}
    /\ loc["t1"].retry_time = 3
    /\ loc["t1"].response = "rejected"
    /\ now = 6000
    /\ counter.expires = 30000

\* C27: in ert mode the increment of every attempt adds exactly 1 to the
\* counter and is followed by the expire, which sets the deadline to now
\* plus the timeout, for a rejected attempt too; an attempt that follows
\* a rejected one by less than the timeout is rejected and does not
\* invoke the operation, and an attempt that follows any attempt by the
\* timeout or more counts 1.
C27_ErtSlidingWindow ==
    /\ [][retry.mode = "ert"
          => \A t \in Tasks :
               /\ pc[t] = "rl_inc" /\ pc'[t] # "rl_inc"
                  => /\ counter'.count = counter.count + 1
                     /\ pc'[t] = "rl_expire"
               /\ pc[t] = "rl_expire" /\ pc'[t] # "rl_expire"
                  => /\ counter'.count = counter.count
                     /\ counter'.expires = now + 1000 * retry.timeout]_vars
    /\ [](\A t \in Tasks :
            retry.mode = "ert" /\ AttemptDone(t)
            => /\ loc[t].response = "rejected"
                  => /\ counter.count = loc[t].retry_time
                     /\ counter.expires = now + 1000 * retry.timeout
               /\ hist.was_rejected /\ hist.waited < 1000 * retry.timeout
                  => loc[t].response = "rejected" /\ ~loc[t].invoked
               /\ hist.attempts > 1 /\ hist.waited >= 1000 * retry.timeout
                  => loc[t].retry_time = 1 /\ loc[t].invoked)

\* A limit of one attempt in 30 s: the attempt made 29.8 s after a
\* rejected one is rejected, with 30 s to wait again.
C27_Witness ==
    /\ retry = Retry("ert", 1, 30)
    /\ AttemptDone("t1")
    /\ hist.was_rejected
    /\ hist.waited = 29800
    /\ loc["t1"].retry_time > 2
    /\ loc["t1"].response = "rejected"
    /\ loc["t1"].result = Seconds(30)
    /\ counter.expires = now + 30000

----------------------------------------------------------------------------
(* The counter between the calls, checked under SpecLimit2.                *)

\* C31: when no attempt is in flight the counter key is absent, or holds
\* a positive count and an expiry that is still to come and no later
\* than the timeout from now.
C31_CounterAbsentOrExpiring ==
    (\A t \in Tasks : pc[t] = "idle")
    => \/ counter = NoCounter
       \/ /\ counter.count >= 1
          /\ counter.expires # Never
          /\ counter.expires > now
          /\ counter.expires <= now + 1000 * retry.timeout

\* Two attempts in frt mode overlapped and each counted 1, the counter
\* cleared in between by neither a success nor an expiry; both are over
\* and the counter holds 1 with its expiry.
C31_Witness ==
    /\ retry = Retry("frt", 2, 30)
    /\ \A t \in Tasks :
          /\ pc[t] = "idle"
          /\ loc[t].op = "retry_limiter"
          /\ loc[t].retry_time = 1
          /\ loc[t].invoked
          /\ loc[t].response # "retval"
    /\ hist.attempts = 2
    /\ hist.overlapped
    /\ counter.count = 1
    /\ counter.expires # Never

====
